---- MODULE Spec2Model ----
(***************************************************************************)
(* Model of the NUEDC Hz-coin sign-in programs:                            *)
(*   signin.py           NuedcHzSigner (with get_user_info) and run_signin *)
(*   nuedc_hz_signin.py  NuedcHzSigner (with cookie file) and the CLI main *)
(*   auto_signin_multi.py  the batch driver over NUEDC_ACCOUNTS            *)
(*                                                                         *)
(* Python strings are modelled as sequences of tokens (a token is an       *)
(* atomic run of characters), so that `in`, startswith, urlparse and       *)
(* urljoin are computed on the text and not assumed.  An optional value    *)
(* (None / missing attribute) is the empty tuple, a present value x is     *)
(* the one-element tuple <<x>>.                                            *)
(***************************************************************************)
EXTENDS Integers, Sequences, FiniteSets, TLC

VARIABLES
    driver,          \* "batch" (auto_signin_multi.main), "cli" (nuedc_hz_signin.main),
                     \* "store" / "extract" / "app" (cookie store, _extract_form, app.py alone) or
                     \* "twice" (a caller of signin.py that calls sign() two times on one signer)
    accounts,        \* batch: the parsed NUEDC_ACCOUNTS list; cli: the one pair of credentials
    cookieArg,       \* cli: cookie_file given to the signer (None when --no-cookie)
    idx,             \* batch: position of the for loop in accounts (1-based)
    pc,              \* position of the running attempt
    signer,          \* the NuedcHzSigner of the running attempt: username, password, cookie_file
    session,         \* signer.session: owner and cookie set
    cookieFile,      \* the cookie file on disk (None: no such file)
    r,               \* the local r of login_via_ti / _request_sign: the last response
    nextUrl,         \* the URL the next hop requests (sso_go, sp_login, ti_sso_url, login_url, saml_action)
    payload,         \* the form fields the next POST sends
    reqLog,          \* every request issued in the running attempt, in order
    result,          \* the SignResult of the last status probe (None before it)
    exc,             \* the exception propagating out of sign() (None when none)
    user_info,       \* the dict get_user_info returned (None when not returned)
    ret,             \* what the entry point gave its caller: run_signin's dict / main's exit code /
                     \* twice: the values sign() returned so far
    signin_results,  \* batch: the signin_results dict, username -> result
    tempPage,        \* the file temp_page.html: the session that wrote it last and what it wrote
    notified,        \* batch: number of send_notification calls
    service,         \* the upstream: how it answers, and who was granted today's sign-in
    accountsFile,    \* app.py: the file accounts.json
    handlers         \* app.py: the requests index() is handling, one per thread

vars == <<driver, accounts, cookieArg, idx, pc, signer, session, cookieFile, r, nextUrl,
          payload, reqLog, result, exc, user_info, ret, signin_results, tempPage, notified, service, accountsFile, handlers>>

None == <<>>
Some(x) == <<x>>

\* accounts.json where app.py is not running.
NoAccountsFile == [state |-> "absent", list |-> <<>>, size |-> 0]

\* ------------------------------------------------------------------ text

\* Python `sub in s` on strings.
Contains(s, sub) ==
    \E i \in 0..(Len(s) - Len(sub)) : SubSeq(s, i + 1, i + Len(sub)) = sub

\* Python s.startswith(pre).
StartsWith(s, pre) ==
    Len(pre) <= Len(s) /\ SubSeq(s, 1, Len(pre)) = pre

\* Smallest index >= from whose token is in set, Len(s)+1 when there is none.
FirstIdx(s, set, from) ==
    LET hits == {i \in from..Len(s) : s[i] \in set}
    IN  IF hits = {} THEN Len(s) + 1 ELSE CHOOSE i \in hits : \A j \in hits : i <= j

\* Greatest index <= upto whose token is in set, 0 when there is none.
LastIdx(s, set, upto) ==
    LET hits == {i \in 1..upto : s[i] \in set}
    IN  IF hits = {} THEN 0 ELSE CHOOSE i \in hits : \A j \in hits : i >= j

Scheme == "https://"

\* urlparse(url).netloc: what follows the scheme up to the first "/", "?" or "#".
Netloc(url) ==
    IF Len(url) = 0 \/ url[1] # Scheme THEN <<>>
    ELSE SubSeq(url, 2, FirstIdx(url, {"/", "?", "#"}, 2) - 1)

\* urlparse(url).path: from the end of the netloc up to the first "?" or "#".
UrlPath(url) ==
    LET start == IF Len(url) > 0 /\ url[1] = Scheme
                 THEN FirstIdx(url, {"/", "?", "#"}, 2) ELSE 1
    IN  SubSeq(url, start, FirstIdx(url, {"?", "#"}, start) - 1)

\* urljoin(base, href) for the three shapes of href the pages carry:
\* absolute, rooted at "/", and relative to the directory of the base path.
urljoin(base, href) ==
    IF Len(href) > 0 /\ href[1] = Scheme THEN href
    ELSE IF Len(href) > 0 /\ href[1] = "/" THEN <<Scheme>> \o Netloc(base) \o href
    ELSE IF Len(href) = 0 THEN base
    ELSE LET endPath == FirstIdx(base, {"?", "#"}, 2) - 1
             slash == LastIdx(base, {"/"}, endPath)
         IN  IF slash = 0 THEN SubSeq(base, 1, endPath) \o <<"/">> \o href
             ELSE SubSeq(base, 1, slash) \o href

NUEDC_HOME == <<Scheme, "www.", "nuedc-training.com.cn", "/">>
NUEDC_SIGN_URL == <<Scheme, "www.", "nuedc-training.com.cn", "/", "index", "/", "mall", "/", "sign">>
MYTI_LOGIN_PAGE ==
    <<Scheme, "www.", "nuedc-training.com.cn", "/", "index", "/", "login", "/", "myti_login">>

\* ------------------------------------------------------------- responses

\* A response is its final URL and its text.  The text is kept as what the two
\* parsers make of it: json is what r.json() returns (None: the body does not
\* parse), doc is what BeautifulSoup(r.text, "html.parser") finds.
\*   doc.anchors  the <a> elements in document order: class, id, href
\*   doc.forms    the <form> elements in document order: class, method, action, inputs
\*   doc.text     marker words occurring in the text outside the elements above
\*   doc.profile  what the profile scraper looks at on the home page
NoProfile == [names |-> <<>>, kw |-> <<>>, sel |-> <<>>, nums |-> <<>>]
EmptyDoc == [anchors |-> <<>>, forms |-> <<>>, text |-> {}, profile |-> NoProfile]
\*   setCookies   the cookies the response (and its redirects) set
Page(url, doc) == [url |-> url, json |-> None, doc |-> doc, setCookies |-> {}]
JsonBody(url, j) == [url |-> url, json |-> Some(j), doc |-> EmptyDoc, setCookies |-> {}]

Anchor(cls, id, href) == [cls |-> cls, id |-> id, href |-> href]
Form(cls, method, action, inputs) ==
    [cls |-> cls, method |-> method, action |-> action, inputs |-> inputs]
Input(name, value) == [name |-> name, value |-> value]

\* The CSS selectors the code uses, on an element of the selector's tag.
Matches(selector, e) ==
    CASE selector = "a.loginMyti-btn1" -> e.cls = "loginMyti-btn1"
      [] selector = "a#href" -> e.id = "href"
      [] selector = "form.paged-form-container, form[method='post']" ->
            (e.cls = "paged-form-container" \/ e.method = "post")
      [] selector = "form" -> TRUE

\* soup.select_one(selector) / soup.find("form"): the first element in
\* document order that matches, None when nothing matches.
SelectFirst(elems, selector) ==
    LET hits == {i \in 1..Len(elems) : Matches(selector, elems[i])}
    IN  IF hits = {} THEN None
        ELSE Some(elems[CHOOSE i \in hits : \A j \in hits : i <= j])

\* tag.get(attr) is falsy: the attribute is missing or the empty string.
Falsy(attr) == attr = None \/ attr[1] = <<>>

\* "SAMLResponse" in r.text
HasSamlMarker(resp) ==
    \/ "SAMLResponse" \in resp.doc.text
    \/ \E i \in 1..Len(resp.doc.forms) :
         \E k \in 1..Len(resp.doc.forms[i].inputs) :
            resp.doc.forms[i].inputs[k].name = Some(<<"SAMLResponse">>)

\* ----------------------------------------------------------- exceptions

RuntimeError(msg) == [type |-> "RuntimeError", msg |-> msg]
BindingRequiredError == [type |-> "BindingRequiredError", msg |-> "myTI account is not bound"]
ConnectionError == [type |-> "ConnectionError", msg |-> "transport failure"]
ValueError == [type |-> "ValueError", msg |-> "invalid literal for int()"]
TypeError == [type |-> "TypeError", msg |-> "int() argument must be a string or a number"]
AttributeError == [type |-> "AttributeError", msg |-> "object has no attribute get"]
OSError == [type |-> "OSError", msg |-> "cannot open temp_page.html"]

Raise(e) == [raised |-> Some(e), value |-> None]
Return(v) == [raised |-> None, value |-> Some(v)]

\* ------------------------------------------------------------ form extraction

\* The payload loop of _extract_form: inputs without a name are skipped, a
\* repeated name keeps its last value, a missing value is "".
RECURSIVE FormPayload(_)
FormPayload(inputs) ==
    IF inputs = <<>> THEN <<>>
    ELSE LET n == Len(inputs)
             rest == FormPayload(SubSeq(inputs, 1, n - 1))
             inp == inputs[n]
             val == IF inp.value = None THEN <<>> ELSE inp.value[1]
         IN  IF Falsy(inp.name) THEN rest
             ELSE [k \in (DOMAIN rest) \cup {inp.name[1]} |->
                      IF k = inp.name[1] THEN val ELSE rest[k]]

\* Mutant: the last matching form is taken.
ExtractForm_last_form(doc, selector) ==
    LET sel == IF selector = None THEN "form" ELSE selector[1]
        hits == {i \in 1..Len(doc.forms) : Matches(sel, doc.forms[i])}
        form == IF hits = {} THEN None
                ELSE Some(doc.forms[CHOOSE i \in hits : \A j \in hits : j <= i])
    IN  IF form = None THEN Raise(RuntimeError("Failed to find form in page."))
        ELSE IF Falsy(form[1].action) THEN Raise(RuntimeError("Form action is missing."))
        ELSE Return([action |-> form[1].action[1], payload |-> FormPayload(form[1].inputs)])

\* _extract_form(soup, selector): (action, payload), or RuntimeError.  No
\* selector (None) takes soup.find("form").
ExtractForm(doc, selector) ==
    LET form == SelectFirst(doc.forms, IF selector = None THEN "form" ELSE selector[1])
    IN  IF form = None THEN Raise(RuntimeError("Failed to find form in page."))
        ELSE IF Falsy(form[1].action) THEN Raise(RuntimeError("Form action is missing."))
        ELSE Return([action |-> form[1].action[1], payload |-> FormPayload(form[1].inputs)])

\* ------------------------------------------------------------ status probe

JInt(n) == [t |-> "int", n |-> n, s |-> <<>>]
JStr(s) == [t |-> "str", n |-> 0, s |-> s]
JNull == [t |-> "null", n |-> 0, s |-> <<>>]

Digits == <<"0", "1", "2", "3", "4", "5", "6", "7", "8", "9">>
DigitVal(c) == (CHOOSE i \in 1..10 : Digits[i] = c) - 1
IsDigit(c) == \E i \in 1..10 : Digits[i] = c

RECURSIVE DecimalValue(_)
DecimalValue(s) ==
    IF s = <<>> THEN 0
    ELSE 10 * DecimalValue(SubSeq(s, 1, Len(s) - 1)) + DigitVal(s[Len(s)])

\* Python int(x) on a JSON value: an int is itself, a string of digits (with
\* an optional sign) is its value, anything else raises.
PyInt(v) ==
    IF v.t = "int" THEN Return(v.n)
    ELSE IF v.t = "null" THEN Raise(TypeError)
    ELSE LET neg == Len(v.s) > 0 /\ v.s[1] = "-"
             digs == IF neg THEN Tail(v.s) ELSE v.s
         IN  IF digs # <<>> /\ \A i \in 1..Len(digs) : IsDigit(digs[i])
             THEN Return(IF neg THEN 0 - DecimalValue(digs) ELSE DecimalValue(digs))
             ELSE Raise(ValueError)

SignResult(status, info, sign_count) ==
    [status |-> status, info |-> info, sign_count |-> sign_count]

\* Mutant: status 2 counted among the successful codes.
ok_with_need_login(res) == res.status \in {0, 1, 2}

ok(res) == res.status \in {0, 1}

\* Mutant: every status that is not ok asks for a login.
need_login_when_not_ok(res) == res.status \notin {0, 1}

need_login(res) == res.status = 2

LoginMarker == <<"index", "/", "login">>

\* Mutant: the marker misspelt.
HasLoginMarker_typo(url) == Contains(url, <<"index", "/", "signin">>)

\* "index/login" in r.url
HasLoginMarker(url) == Contains(url, LoginMarker)

\* Mutant: a streak that is missing or does not parse reported as zero.
RequestSignResult_zero_streak(resp) ==
    IF resp.json = None THEN
        IF HasLoginMarker(resp.url)
        THEN Return(SignResult(2, "need login", None))
        ELSE Raise(RuntimeError("Unexpected sign response."))
    ELSE LET data == resp.json[1]
         IN  IF ~data.isDict THEN Raise(AttributeError)
             ELSE LET st == IF data.status = None THEN Return(0 - 1) ELSE PyInt(data.status[1])
                      info == IF data.info = None THEN "" ELSE data.info[1]
                      cnt == IF data.data = None \/ ~data.data[1].isDict THEN None
                             ELSE data.data[1].sign_count
                      sign_count ==
                          IF cnt = None \/ cnt[1].t = "null" THEN Some(0)
                          ELSE IF PyInt(cnt[1]).raised # None THEN Some(0)
                          ELSE PyInt(cnt[1]).value
                 IN  IF st.raised # None THEN st
                     ELSE Return(SignResult(st.value[1], info, sign_count))

\* The body of _request_sign after the GET returned resp.
\* A JSON body is [isDict, status, info, data]; data is [isDict, sign_count].
RequestSignResult(resp) ==
    IF resp.json = None THEN
        IF HasLoginMarker(resp.url)
        THEN Return(SignResult(2, "need login", None))
        ELSE Raise(RuntimeError("Unexpected sign response."))
    ELSE LET data == resp.json[1]
         IN  IF ~data.isDict THEN Raise(AttributeError)
             ELSE LET st == IF data.status = None THEN Return(0 - 1) ELSE PyInt(data.status[1])
                      info == IF data.info = None THEN "" ELSE data.info[1]
                      cnt == IF data.data = None \/ ~data.data[1].isDict THEN None
                             ELSE data.data[1].sign_count
                      sign_count ==
                          IF cnt = None \/ cnt[1].t = "null" THEN None
                          ELSE PyInt(cnt[1]).value
                 IN  IF st.raised # None THEN st
                     ELSE Return(SignResult(st.value[1], info, sign_count))

\* ------------------------------------------------------------ login hops

\* str.lower() and str.strip() on a string given character by character.
LowerChar(c) == IF c = "A" THEN "a" ELSE IF c = "B" THEN "b" ELSE c
Lower(s) == [i \in 1..Len(s) |-> LowerChar(s[i])]

RECURSIVE Strip(_)
Strip(s) ==
    IF s = <<>> THEN s
    ELSE IF s[1] = " " THEN Strip(Tail(s))
    ELSE IF s[Len(s)] = " " THEN Strip(SubSeq(s, 1, Len(s) - 1))
    ELSE s

\* S0, signin.py 168-172: the anchor a.loginMyti-btn1 and its href.
EntryStep(resp) ==
    LET myti_btn == SelectFirst(resp.doc.anchors, "a.loginMyti-btn1")
    IN  IF myti_btn = None \/ Falsy(myti_btn[1].href)
        THEN Raise(RuntimeError("myTI login entry not found."))
        ELSE Return(urljoin(resp.url, myti_btn[1].href[1]))

\* Mutant: the S1 miss raised with the S0 message.
RedirectStep_entry_message(resp) ==
    LET auto_link == SelectFirst(resp.doc.anchors, "a#href")
    IN  IF auto_link = None \/ Falsy(auto_link[1].href)
        THEN Raise(RuntimeError("myTI login entry not found."))
        ELSE Return(urljoin(resp.url, auto_link[1].href[1]))

\* S1, signin.py 177-181: the anchor a#href and its href.
RedirectStep(resp) ==
    LET auto_link == SelectFirst(resp.doc.anchors, "a#href")
    IN  IF auto_link = None \/ Falsy(auto_link[1].href)
        THEN Raise(RuntimeError("SSO redirect link not found."))
        ELSE Return(urljoin(resp.url, auto_link[1].href[1]))

\* S2, signin.py 186-188: the first form of the SP page.
SpStep(resp) ==
    LET f == ExtractForm(resp.doc, None)
    IN  IF f.raised # None THEN f
        ELSE Return([url |-> urljoin(resp.url, f.value[1].action),
                     payload |-> f.value[1].payload])

\* dict item assignment d[k] = v
DictSet(d, k, v) == [x \in (DOMAIN d) \cup {k} |-> IF x = k THEN v ELSE d[x]]

\* S4 preparation, signin.py 202-209: the login form with the credentials.
CredentialStep(resp, username, password) ==
    LET f == ExtractForm(resp.doc, Some("form.paged-form-container, form[method='post']"))
    IN  IF f.raised # None THEN f
        ELSE Return([url |-> urljoin(resp.url, f.value[1].action),
                     payload |-> DictSet(DictSet(DictSet(f.value[1].payload,
                                     <<"pf.username">>, Lower(username)),
                                     <<"pf.pass">>, password),
                                     <<"loginbutton">>, <<"login">>)])

\* Mutant: the assertion form is looked for without the marker check.
ConsumeStep_no_marker_check(resp) ==
    LET saml_form == SelectFirst(resp.doc.forms, "form")
    IN  IF saml_form = None \/ Falsy(saml_form[1].action)
        THEN Raise(RuntimeError("SAMLResponse form is missing."))
        ELSE Return([url |-> urljoin(resp.url, saml_form[1].action[1]),
                     payload |-> FormPayload(saml_form[1].inputs)])

\* S5 preparation, signin.py 224-241: the form carrying the assertion.
ConsumeStep(resp) ==
    IF ~HasSamlMarker(resp)
    THEN Raise(RuntimeError("TI login did not return SAMLResponse."))
    ELSE LET saml_form == SelectFirst(resp.doc.forms, "form")
         IN  IF saml_form = None \/ Falsy(saml_form[1].action)
             THEN Raise(RuntimeError("SAMLResponse form is missing."))
             ELSE Return([url |-> urljoin(resp.url, saml_form[1].action[1]),
                          payload |-> FormPayload(saml_form[1].inputs)])

TargetDomain == <<"nuedc-training.com.cn">>
BindingPath == <<"/", "index", "/", "saml", "/", "binding">>

\* "nuedc-training.com.cn" in host
HostAccepted(url) == Contains(Netloc(url), TargetDomain)

\* Mutant: `in` where the code has startswith.
IsBindingPath_anywhere(url) == Contains(UrlPath(url), BindingPath)

\* urlparse(r.url).path.startswith("/index/saml/binding")
IsBindingPath(url) == StartsWith(UrlPath(url), BindingPath)

\* S5 landing and S6, signin.py 255-263.
LandingStep(resp) ==
    IF ~HostAccepted(resp.url)
    THEN Raise(RuntimeError("SSO callback not completed."))
    ELSE IF IsBindingPath(resp.url) THEN Raise(BindingRequiredError)
    ELSE Return(TRUE)

\* ------------------------------------------------------------ profile scraper

\* First present element of a sequence of optional values, None when all are missing.
FirstSome(seq) ==
    LET hits == {i \in 1..Len(seq) : seq[i] # None}
    IN  IF hits = {} THEN None ELSE seq[CHOOSE i \in hits : \A j \in hits : i <= j]

RECURSIVE Flatten(_)
Flatten(seqs) == IF seqs = <<>> THEN <<>> ELSE Head(seqs) \o Flatten(Tail(seqs))

SeqMax(nums) == CHOOSE m \in {nums[i] : i \in DOMAIN nums} : \A i \in DOMAIN nums : nums[i] <= m

\* Mutant: the currency selectors are tried before the keyword search.
ScrapeProfile_selectors_first(profile) ==
    LET name == FirstSome(profile.names)
        username == IF name = None THEN "" ELSE name[1]
        kwElems == SelectSeq(Flatten(profile.kw), LAMBDA nums : nums # <<>>)
        selElems == SelectSeq(profile.sel, LAMBDA e : e # None /\ e[1] # <<>>)
        large == SelectSeq(profile.nums, LAMBDA n : n > 0)
    IN  [username |-> username,
         hz_coins |-> IF selElems # <<>> THEN selElems[1][1][1]
                      ELSE IF kwElems # <<>> THEN kwElems[1][1]
                      ELSE IF large # <<>> THEN SeqMax(large)
                      ELSE 0]

\* get_user_info after the page was fetched and saved, signin.py 277-365.
\*   profile.names  per username selector, in list order: the element's text, None when absent
\*   profile.kw     per text node containing the currency keyword: per span/div/p/b/strong
\*                  below its parent, the numbers re.findall finds in the element's text
\*   profile.sel    per currency selector, in list order: the numbers in the element's text
\*   profile.nums   the numbers re.findall finds in soup.get_text()
ScrapeProfile(profile) ==
    LET name == FirstSome(profile.names)
        username == IF name = None THEN "" ELSE name[1]
        kwElems == SelectSeq(Flatten(profile.kw), LAMBDA nums : nums # <<>>)
        selElems == SelectSeq(profile.sel, LAMBDA e : e # None /\ e[1] # <<>>)
        large == SelectSeq(profile.nums, LAMBDA n : n > 0)
    IN  [username |-> username,
         hz_coins |-> IF kwElems # <<>> THEN kwElems[1][1]
                      ELSE IF selElems # <<>> THEN selElems[1][1][1]
                      ELSE IF large # <<>> THEN SeqMax(large)
                      ELSE 0]

\* ------------------------------------------------------------ cookies

\* A cookie as http.cookiejar keeps it.  value is None for a cookie sent
\* without "="; expires is None for a session cookie, else the time it ends,
\* kept as where that time lies relative to the run ("past" or "future").
Cookie(name, value, domain, path, secure, expires) ==
    [name |-> name, value |-> value, domain |-> domain, path |-> path,
     secure |-> secure, expires |-> expires]

\* requests.cookies.create_cookie(name, value, domain, path, secure, expires)
create_cookie(c) == Cookie(c.name, c.value, c.domain, c.path, c.secure, c.expires)

SameKey(c, d) == c.domain = d.domain /\ c.path = d.path /\ c.name = d.name

\* CookieJar.set_cookie for each cookie of new: a cookie of the same domain,
\* path and name is replaced.
SetCookies(jar, new) == {c \in jar : \A d \in new : ~SameKey(c, d)} \cup new

\* Cookie.is_expired(now)
IsExpired(c) == c.expires # None /\ c.expires[1] = "past"

EndsWith(s, suf) ==
    Len(suf) <= Len(s) /\ SubSeq(s, Len(s) - Len(suf) + 1, Len(s)) = suf

\* The cookie's domain covers the host: the host itself, or for a domain with
\* an initial dot every host below it.
DomainMatch(host, domain) ==
    \/ host = domain
    \/ domain # <<>> /\ domain[1] = "." /\ EndsWith(host, Tail(domain))

\* The cookies session.get / session.post put in the Cookie header of a
\* request to url: the jar's policy returns a cookie only when its domain and
\* path cover the URL, a secure cookie only over https, and never a cookie
\* whose expiry has passed.
CookieHeader(jar, url) ==
    {c \in jar : /\ ~IsExpired(c)
                 /\ DomainMatch(Netloc(url), c.domain)
                 /\ StartsWith(UrlPath(url), c.path)
                 /\ (c.secure => (Len(url) > 0 /\ url[1] = Scheme))}

\* Mutant: a cookie without value written under its own name with an empty value.
MozillaLine_name_kept(c) ==
    [domain |-> c.domain,
     domain_specified |-> IF c.domain # <<>> /\ c.domain[1] = "." THEN "TRUE" ELSE "FALSE",
     path |-> c.path,
     secure |-> IF c.secure THEN "TRUE" ELSE "FALSE",
     expires |-> IF c.expires = None THEN "" ELSE c.expires[1],
     name |-> c.name,
     value |-> IF c.value = None THEN "" ELSE c.value[1]]

\* One line of the cookie file as MozillaCookieJar.save writes it: seven text
\* fields.  A cookie without value is written with an empty name and its name
\* in the value field; a session cookie has an empty expires field.
MozillaLine(c) ==
    [domain |-> c.domain,
     domain_specified |-> IF c.domain # <<>> /\ c.domain[1] = "." THEN "TRUE" ELSE "FALSE",
     path |-> c.path,
     secure |-> IF c.secure THEN "TRUE" ELSE "FALSE",
     expires |-> IF c.expires = None THEN "" ELSE c.expires[1],
     name |-> IF c.value = None THEN "" ELSE c.name,
     value |-> IF c.value = None THEN c.name ELSE c.value[1]]

\* The cookie MozillaCookieJar.load reads from one line.
ParseLine(l) ==
    Cookie(IF l.name = "" THEN l.value ELSE l.name,
           IF l.name = "" THEN None ELSE Some(l.value),
           l.domain, l.path, l.secure = "TRUE",
           IF l.expires = "" THEN None ELSE Some(l.expires))

\* A line load accepts: its domain flag agrees with the domain's initial dot.
WellFormedLine(l) ==
    (l.domain_specified = "TRUE") <=> (l.domain # <<>> /\ l.domain[1] = ".")

LoadError == [type |-> "LoadError", msg |-> "invalid Netscape format cookies file"]

\* What load_cookies puts in the jar from the lines of a file that parses
\* (nuedc_hz_signin.py 103-115): every line, whatever its expiry.
LoadedCookies(jar, lines) == SetCookies(jar, {create_cookie(ParseLine(l)) : l \in lines})

\* What save_cookies writes (nuedc_hz_signin.py 121-124): a fresh jar filled
\* from the session, every cookie of it written, whatever the file held.
SavedCookies(jar) == {MozillaLine(c) : c \in SetCookies({}, jar)}

\* load_cookies(), nuedc_hz_signin.py 96-116: the session's jar afterwards, or
\* the exception.  file is the file at cookie_file (None: no such file).
load_cookies(cookie_file, file, jar) ==
    IF cookie_file = None THEN Return(jar)
    ELSE IF file = None THEN Return(jar)
    ELSE IF ~file[1].valid \/ \E l \in file[1].lines : ~WellFormedLine(l) THEN Raise(LoadError)
    ELSE Return(LoadedCookies(jar, file[1].lines))

\* save_cookies(), nuedc_hz_signin.py 118-125: the file afterwards.
save_cookies(cookie_file, file, jar) ==
    IF cookie_file = None THEN file
    ELSE Some([valid |-> TRUE, lines |-> SavedCookies(jar)])

\* ------------------------------------------------------------ entry points

MsgSucceeded == "qiandao chenggong"
MsgFailed == "qiandao shibai"
MsgAlreadyDone == "qiandao yiwancheng"
MsgNeedBinding == "xuyao bangding zhanghao"

\* Mutant: every status but needs-login counts as success.
RunSigninReturn_success_unless_login(res, info) ==
    [success |-> ~need_login(res),
     status |-> res.status,
     info |-> res.info,
     sign_count |-> res.sign_count,
     user_info |-> info,
     message |-> <<IF res.status = 1 THEN MsgSucceeded
                   ELSE IF res.status # 0 THEN MsgFailed ELSE MsgAlreadyDone,
                   res.info>>]

\* run_signin's return after sign() returned, signin.py 392-399.
RunSigninReturn(res, info) ==
    [success |-> ok(res),
     status |-> res.status,
     info |-> res.info,
     sign_count |-> res.sign_count,
     user_info |-> info,
     message |-> <<IF res.status = 1 THEN MsgSucceeded
                   ELSE IF res.status # 0 THEN MsgFailed ELSE MsgAlreadyDone,
                   res.info>>]

\* Mutant: the BindingRequiredError clause missing.
RunSigninExcept_generic_only(e) ==
    [success |-> FALSE, error |-> e.msg, message |-> <<MsgFailed, e.msg>>]

\* run_signin's two except clauses, signin.py 400-411.
RunSigninExcept(e) ==
    IF e.type = "BindingRequiredError"
    THEN [success |-> FALSE, error |-> e.msg, message |-> <<MsgNeedBinding, e.msg>>]
    ELSE [success |-> FALSE, error |-> e.msg, message |-> <<MsgFailed, e.msg>>]

\* main's exit code after the try block, nuedc_hz_signin.py 332-353.
MainExit(e, res) ==
    IF e # None THEN (IF e[1].type = "BindingRequiredError" THEN 3 ELSE 1)
    ELSE IF ok(res[1]) THEN 0 ELSE 1

\* ------------------------------------------------------------ inputs

MaxAccounts == 2

Www == <<Scheme, "www.", "nuedc-training.com.cn">>
Idp == <<Scheme, "login.ti.com">>

JsonObj(status, info, data) == [isDict |-> TRUE, status |-> status, info |-> info, data |-> data]
JsonArray == [isDict |-> FALSE, status |-> None, info |-> None, data |-> None]
JsonData(sign_count) == [isDict |-> TRUE, sign_count |-> sign_count]
JsonList == [isDict |-> FALSE, sign_count |-> None]

\* The sign endpoint's answers when it is asked as designed: the daily
\* sign-in granted, already granted today, and the redirect to the login page
\* for a request without a live session.
GrantedAnswer ==
    JsonBody(NUEDC_SIGN_URL, JsonObj(Some(JStr(<<"1">>)), Some("ok"), Some(JsonData(Some(JInt(7))))))
AlreadyAnswer ==
    JsonBody(NUEDC_SIGN_URL, JsonObj(Some(JInt(0)), Some("signed"), Some(JsonData(Some(JStr(<<"1", "2">>))))))
LoginRedirect == Page(Www \o <<"/", "index", "/", "login", "/", "index.html">>, EmptyDoc)

\* What the sign endpoint may answer.
ProbeResponses ==
    { GrantedAnswer,
      AlreadyAnswer,
      LoginRedirect,
      JsonBody(NUEDC_SIGN_URL, JsonObj(Some(JInt(2)), Some("need login"), Some(JsonList))),
      JsonBody(NUEDC_SIGN_URL, JsonObj(None, None, Some(JsonData(Some(JStr(<<"x">>)))))),
      JsonBody(NUEDC_SIGN_URL, JsonObj(Some(JStr(<<"x">>)), Some("ok"), None)),
      JsonBody(NUEDC_SIGN_URL, JsonArray),
      Page(NUEDC_SIGN_URL, EmptyDoc),
      Page(Www \o <<"/", "error", "?", "from=", "index", "/", "login">>, EmptyDoc) }

Doc(anchors, forms, text) ==
    [anchors |-> anchors, forms |-> forms, text |-> text, profile |-> NoProfile]

NavAnchor == Anchor("nav", "", Some(<<"/">>))

\* The login-entry page as designed (S0).
ExpectedEntry ==
    Page(MYTI_LOGIN_PAGE \o <<"?", "referer=">>,
         Doc(<<NavAnchor, Anchor("loginMyti-btn1", "", Some(<<"/", "index", "/", "saml", "/", "sso_go">>))>>,
             <<>>, {}))

\* What the login-entry page may be (S0).
EntryResponses ==
    {ExpectedEntry} \cup
    { Page(MYTI_LOGIN_PAGE \o <<"?", "referer=">>, Doc(a, <<>>, {})) :
        a \in { <<NavAnchor>>,
                <<Anchor("loginMyti-btn1", "", None)>>,
                <<Anchor("loginMyti-btn1", "", Some(<<>>))>> } }

\* The SSO redirect page as designed (S1).
ExpectedRedirect ==
    Page(Www \o <<"/", "index", "/", "saml", "/", "sso_go">>,
         Doc(<<NavAnchor, Anchor("", "href", Some(<<"sp_login">>))>>, <<>>, {}))

\* What the SSO redirect page may be (S1).
RedirectResponses ==
    {ExpectedRedirect} \cup
    { Page(Www \o <<"/", "index", "/", "saml", "/", "sso_go">>, Doc(a, <<>>, {})) :
        a \in { <<NavAnchor>>,
                <<Anchor("", "href", None)>> } }

SamlRequestInputs ==
    << Input(Some(<<"SAMLRequest">>), Some(<<"req">>)),
       Input(None, Some(<<"go">>)),
       Input(Some(<<"RelayState">>), Some(<<"one">>)),
       Input(Some(<<"RelayState">>), None) >>

\* The SP page as designed (S2).
ExpectedSp ==
    Page(<<Scheme, "sp.", "nuedc-training.com.cn", "/", "login">>,
         Doc(<<>>, <<Form("", "post", Some(Idp \o <<"/", "sso">>), SamlRequestInputs)>>, {}))

\* What the SP page may be (S2).
SpResponses ==
    {ExpectedSp} \cup
    { Page(<<Scheme, "sp.", "nuedc-training.com.cn", "/", "login">>, Doc(<<>>, f, {})) :
        f \in { <<>>,
                <<Form("", "post", None, SamlRequestInputs)>> } }

LoginForm ==
    Form("paged-form-container", "", Some(<<"/", "as", "/", "login">>),
         << Input(Some(<<"pf.adapterId">>), Some(<<"ti">>)),
            Input(Some(<<"pf.username">>), Some(<<>>)) >>)

SamlForm ==
    Form("", "post", Some(Www \o <<"/", "index", "/", "saml", "/", "acs">>),
         << Input(Some(<<"SAMLResponse">>), Some(<<"assertion">>)) >>)

\* The identity provider's answer to the federation request for a browser
\* it does not know (S3): its login form.
ExpectedIdp == Page(Idp \o <<"/", "as", "/", "authorization">>, Doc(<<>>, <<LoginForm>>, {}))

\* What the identity provider may answer to the federation request (S3).
IdpResponses ==
    {ExpectedIdp} \cup
    { Page(Idp \o <<"/", "as", "/", "authorization">>, d) :
        d \in { Doc(<<>>, <<SamlForm>>, {}),
                Doc(<<>>, <<Form("search", "get", Some(<<"/", "q">>), <<>>)>>, {}),
                Doc(<<>>, <<>>, {"SAMLResponse"}) } }

\* The identity provider's answer to accepted credentials (S4): the assertion.
ExpectedCredential == Page(Idp \o <<"/", "as", "/", "login">>, Doc(<<>>, <<SamlForm>>, {}))

\* What the identity provider may answer to the credentials (S4).
CredentialResponses ==
    {ExpectedCredential} \cup
    { Page(Idp \o <<"/", "as", "/", "login">>, d) :
        d \in { Doc(<<>>, <<LoginForm>>, {}),
                Doc(<<>>, <<Form("", "post", None, <<>>)>>, {"SAMLResponse"}) } }

WwwHost == <<"www.", "nuedc-training.com.cn">>

SessionCookie == Cookie("PHPSESSID", Some("s1"), WwwHost, <<"/">>, FALSE, None)
StaleCookie == Cookie("PHPSESSID", Some("s0"), WwwHost, <<"/">>, FALSE, Some("past"))

\* Where the assertion-consume POST lands for a bound account (S5): the home
\* page, with the session cookie set.
ExpectedLanding == [Page(NUEDC_HOME, EmptyDoc) EXCEPT !.setCookies = {SessionCookie}]

\* Where the assertion-consume POST may land (S5).
LandingResponses ==
    { ExpectedLanding,
      Page(NUEDC_SIGN_URL, EmptyDoc),
      Page(Www \o BindingPath, EmptyDoc),
      Page(Www \o BindingPath \o <<"/", "step2">>, EmptyDoc),
      Page(Www \o <<"/", "help">> \o BindingPath, EmptyDoc),
      Page(Idp \o <<"/", "as", "/", "login">>, EmptyDoc),
      Page(Idp \o BindingPath, EmptyDoc),
      Page(<<Scheme, "nuedc-training.com.cn", ".evil.example", "/">>, EmptyDoc) }

ProfileDoc(names, kw, sel, nums) ==
    [anchors |-> <<>>, forms |-> <<>>, text |-> {},
     profile |-> [names |-> names, kw |-> kw, sel |-> sel, nums |-> nums]]

\* What the home page may be for the profile scraper.
HomeResponses ==
    { Page(NUEDC_HOME, d) :
        d \in { ProfileDoc(<<None, Some("alice"), Some("x"), None, None>>,
                           << << <<>>, <<30, 4>> >> >>,
                           <<None, Some(<<50>>), None, None, None>>,
                           <<2024, 30, 4, 50>>),
                ProfileDoc(<<None, None, None, None, None>>,
                           << << <<>> >> >>,
                           <<Some(<<>>), None, Some(<<50, 6>>), None, None>>,
                           <<50, 6, 2024>>),
                ProfileDoc(<<Some("bob"), None, None, None, None>>,
                           <<>>,
                           <<None, None, None, None, None>>,
                           <<0, 12, 2024, 7>>),
                ProfileDoc(<<None, None, None, None, None>>, <<>>,
                           <<None, None, None, None, None>>, <<0>>) } }

Account(username, password) == [username |-> username, password |-> password]

\* Entries of NUEDC_ACCOUNTS / credentials of the CLI.  A missing or empty
\* username or password is the empty string.
AccountEntries ==
    { Account(<<"A", "b">>, <<"pw1">>),
      Account(<<" ", "B">>, <<"pw2">>),
      Account(<<"A", "b">>, <<>>) }

CliCredentials == AccountEntries \cup {Account(<<>>, <<"pw1">>)}

RECURSIVE SeqsUpTo(_, _)
SeqsUpTo(S, n) ==
    IF n = 0 THEN {<<>>}
    ELSE LET shorter == SeqsUpTo(S, n - 1)
         IN  shorter \cup {Append(q, e) : q \in shorter, e \in S}

CookiePath == ".nuedc_cookies.txt"

\* The cookie file before a CLI run: absent, or written by an earlier run
\* (empty, with a cookie past its expiry, with a live session cookie), or
\* present and not in the Mozilla format.
CookieFiles ==
    { None,
      Some([valid |-> TRUE, lines |-> {}]),
      Some([valid |-> TRUE, lines |-> {MozillaLine(StaleCookie)}]),
      Some([valid |-> TRUE, lines |-> {MozillaLine(SessionCookie)}]),
      Some([valid |-> FALSE, lines |-> {}]) }

\* ------------------------------------------------------------ state machine

NoSigner == [username |-> <<>>, password |-> <<>>, cookie_file |-> None]
NoSession == [owner |-> <<>>, cookies |-> {}]

\* The locals and fields one attempt starts with.
AttemptReset ==
    /\ r' = None
    /\ nextUrl' = <<>>
    /\ payload' = <<>>
    /\ reqLog' = <<>>
    /\ result' = None
    /\ exc' = None
    /\ user_info' = None
    /\ ret' = None

\* Mutant: the constructor keeps the username as given.
NewSigner_no_strip(username, password, cookie_file) ==
    [username |-> username, password |-> password, cookie_file |-> cookie_file]

\* NuedcHzSigner.__init__: the username is stripped, the session is new.
NewSigner(username, password, cookie_file) ==
    [username |-> Strip(username), password |-> password, cookie_file |-> cookie_file]

NewSession(username) == [owner |-> username, cookies |-> {}]

\* The upstream.  mode "any": each request may fail or be answered by any
\* page of its response set.  mode "expected": every request is answered as
\* designed, nothing local fails, and the daily sign-in is granted once per
\* account (signed: the accounts it was granted to).
Upstream(mode) == [mode |-> mode, signed |-> {}]

Init ==
    /\ driver \in {"batch", "cli", "twice"}
    /\ \/ /\ driver = "batch"
          /\ accounts \in SeqsUpTo(AccountEntries, MaxAccounts)
          /\ cookieArg = None
          /\ cookieFile = None
          /\ pc = "loop"
          /\ signer = NoSigner
          /\ session = NoSession
          /\ ret = None
          /\ service \in {Upstream("any"), Upstream("expected")}
       \/ /\ driver = "cli"
          /\ accounts \in {<<c>> : c \in CliCredentials}
          /\ cookieArg \in {None, Some(CookiePath)}
          /\ cookieFile \in CookieFiles
          /\ pc = "main"
          /\ signer = NoSigner
          /\ session = NoSession
          /\ ret = None
          /\ service \in {Upstream("any"), Upstream("expected")}
       \/ /\ driver = "twice"
          /\ accounts \in {<<c>> : c \in {e \in AccountEntries : e.password # <<>>}}
          /\ cookieArg = None
          /\ cookieFile = None
          /\ pc = "probe1"
          /\ signer = NewSigner(accounts[1].username, accounts[1].password, None)
          /\ session \in {NewSession(accounts[1].username),
                          [owner |-> accounts[1].username, cookies |-> {SessionCookie}]}
          /\ ret = Some(<<>>)
          /\ service = Upstream("expected")
    /\ idx = 1
    /\ r = None
    /\ nextUrl = <<>>
    /\ payload = <<>>
    /\ reqLog = <<>>
    /\ result = None
    /\ exc = None
    /\ user_info = None
    /\ signin_results = <<>>
    /\ tempPage = None
    /\ notified = 0
    /\ accountsFile = NoAccountsFile
    /\ handlers = <<>>

\* One request of the running attempt, as the log keeps it: the hop, the URL,
\* form fields and cookies sent, the status a probe returned, and the exception
\* the request or the handling of its response raised.
Request(hop, url, data, status, err) ==
    [hop |-> hop, url |-> url, data |-> data, status |-> status, err |-> err,
     cookies |-> CookieHeader(session.cookies, url)]

\* Mutant: the failed step is tried again.
Fail_and_retry(e) ==
    /\ exc' = Some(e)
    /\ pc' = pc

\* An exception leaves sign(): control is in the caller's except clause.
Fail(e) ==
    /\ exc' = Some(e)
    /\ pc' = "finish"

\* Mutant: the cookies a response sets are dropped.
Receive_drops_cookies(resp) == session' = session

\* The session keeps the cookies a response sets.
Receive(resp) == session' = [session EXCEPT !.cookies = SetCookies(@, resp.setCookies)]

\* Mutant: sign() returns without the profile scrape.
AfterProbe_skip_scrape == "finish"

\* Where sign() goes after its last probe: signin.py scrapes the profile,
\* nuedc_hz_signin.py returns.
AfterProbe == IF driver = "cli" THEN "finish" ELSE "scrape"

\* Mutant: no entry is skipped.
BatchNext_no_skip ==
    /\ driver = "batch" /\ pc = "loop" /\ idx <= Len(accounts)
    /\ LET account == accounts[idx]
       IN  /\ signer' = NewSigner(account.username, account.password, None)
           /\ session' = NewSession(account.username)
           /\ AttemptReset
           /\ pc' = "probe1"
           /\ idx' = idx
    /\ UNCHANGED <<driver, accounts, cookieArg, cookieFile, signin_results, tempPage, notified, service, accountsFile, handlers>>

\* auto_signin_multi.main, the head of the for loop (34-44): an entry without
\* username or password is skipped, any other starts run_signin.
BatchNext ==
    /\ driver = "batch" /\ pc = "loop" /\ idx <= Len(accounts)
    /\ LET account == accounts[idx]
       IN  IF account.username = <<>> \/ account.password = <<>>
           THEN /\ idx' = idx + 1
                /\ UNCHANGED <<pc, signer, session, r, nextUrl, payload, reqLog, result,
                               exc, user_info, ret>>
           ELSE /\ signer' = NewSigner(account.username, account.password, None)
                /\ session' = NewSession(account.username)
                /\ AttemptReset
                /\ pc' = "probe1"
                /\ idx' = idx
    /\ UNCHANGED <<driver, accounts, cookieArg, cookieFile, signin_results, tempPage, notified, service, accountsFile, handlers>>

\* nuedc_hz_signin.main up to sign() (313-330): the credentials check, the
\* signer, load_cookies.
CliStart ==
    /\ driver = "cli" /\ pc = "main"
    /\ LET cred == accounts[1]
       IN  IF cred.username = <<>> \/ cred.password = <<>>
           THEN /\ ret' = Some([exit |-> 2])
                /\ pc' = "done"
                /\ UNCHANGED <<signer, session, exc>>
           ELSE /\ signer' = NewSigner(cred.username, cred.password, cookieArg)
                /\ ret' = None
                /\ LET loaded == load_cookies(cookieArg, cookieFile, {})
                   IN  IF loaded.raised # None
                       THEN /\ session' = NewSession(cred.username)
                            /\ Fail(loaded.raised[1])
                       ELSE /\ session' = [owner |-> cred.username, cookies |-> loaded.value[1]]
                            /\ exc' = None
                            /\ pc' = "probe1"
    /\ UNCHANGED <<driver, accounts, cookieArg, idx, cookieFile, r, nextUrl, payload, reqLog,
                   result, user_info, signin_results, tempPage, notified, service, accountsFile, handlers>>

\* The pages a request may come back with: any page of its response set, or
\* in mode "expected" the page the upstream sends as designed.
Answers(all, expected) == IF service.mode = "any" THEN all ELSE {expected}

\* The account the upstream knows the signer as: the name posted at S4.
Identity == Lower(signer.username)

\* The request carries the session cookie the upstream issued.
Authenticated(cookies) ==
    \E c \in cookies : c.name = SessionCookie.name /\ c.value = SessionCookie.value

\* The sign endpoint as designed: without a live session the redirect to the
\* login page, else the sign-in granted once per account and day.
ExpectedProbe(cookies) ==
    IF ~Authenticated(cookies) THEN LoginRedirect
    ELSE IF Identity \notin service.signed THEN GrantedAnswer
    ELSE AlreadyAnswer

\* _request_sign, called by sign() first and once more after login_via_ti.
RequestSign ==
    /\ pc \in {"probe1", "probe2"}
    /\ \/ /\ service.mode = "any"
          /\ reqLog' = Append(reqLog, Request("probe", NUEDC_SIGN_URL, <<>>, None,
                                                Some(ConnectionError)))
          /\ Fail(ConnectionError)
          /\ UNCHANGED <<r, result, session, service, accountsFile, handlers>>
       \/ \E resp \in Answers(ProbeResponses,
                              ExpectedProbe(CookieHeader(session.cookies, NUEDC_SIGN_URL))) :
            LET out == RequestSignResult(resp)
            IN  /\ r' = Some(resp)
                /\ Receive(resp)
                /\ service' = IF service.mode = "expected" /\ resp = GrantedAnswer
                              THEN [service EXCEPT !.signed = @ \cup {Identity}]
                              ELSE service
                /\ IF out.raised # None
                   THEN /\ reqLog' = Append(reqLog, Request("probe", NUEDC_SIGN_URL, <<>>, None,
                                                            out.raised))
                        /\ Fail(out.raised[1])
                        /\ UNCHANGED result
                   ELSE /\ reqLog' = Append(reqLog, Request("probe", NUEDC_SIGN_URL, <<>>,
                                                            Some(out.value[1].status), None))
                        /\ result' = out.value
                        /\ exc' = None
                        /\ pc' = IF pc = "probe1" /\ need_login(out.value[1])
                                 THEN "s0" ELSE AfterProbe
    /\ UNCHANGED <<driver, accounts, cookieArg, idx, signer, cookieFile, nextUrl,
                   payload, user_info, ret, signin_results, tempPage, notified, accountsFile, handlers>>

\* What no hop of login_via_ti touches.
HopFrame ==
    UNCHANGED <<driver, accounts, cookieArg, idx, signer, cookieFile, result, user_info, ret,
                signin_results, tempPage, notified, service, accountsFile, handlers>>

\* A hop's request does not come back: requests raises, nothing is retried.
HopTimeout(hop, url, data) ==
    /\ service.mode = "any"
    /\ reqLog' = Append(reqLog, Request(hop, url, data, None, Some(ConnectionError)))
    /\ Fail(ConnectionError)
    /\ UNCHANGED <<r, nextUrl, payload, session>>

\* A hop's request came back with resp and the page check gave out: the
\* next hop's URL and form fields, or the hop's exception.
HopDone(hop, url, data, resp, out, next) ==
    /\ reqLog' = Append(reqLog, Request(hop, url, data, None, out.raised))
    /\ r' = Some(resp)
    /\ Receive(resp)
    /\ IF out.raised # None
       THEN /\ Fail(out.raised[1])
            /\ UNCHANGED <<nextUrl, payload>>
       ELSE /\ nextUrl' = out.value[1].url
            /\ payload' = out.value[1].payload
            /\ exc' = None
            /\ pc' = next

EntryUrl == MYTI_LOGIN_PAGE \o <<"?", "referer=">> \o NUEDC_HOME

NoPayload(out) ==
    IF out.raised # None THEN out ELSE Return([url |-> out.value[1], payload |-> <<>>])

\* S0, signin.py 162-173: GET the login-entry page, find the start-SSO anchor.
HopEntry ==
    /\ pc = "s0"
    /\ \/ HopTimeout("S0", EntryUrl, <<>>)
       \/ \E resp \in Answers(EntryResponses, ExpectedEntry) :
            HopDone("S0", EntryUrl, <<>>, resp, NoPayload(EntryStep(resp)), "s1")
    /\ HopFrame

\* S1, signin.py 175-182: GET sso_go, find the auto-submit anchor.
HopRedirect ==
    /\ pc = "s1"
    /\ \/ HopTimeout("S1", nextUrl, <<>>)
       \/ \E resp \in Answers(RedirectResponses, ExpectedRedirect) :
            HopDone("S1", nextUrl, <<>>, resp, NoPayload(RedirectStep(resp)), "s2")
    /\ HopFrame

\* S2, signin.py 184-188: GET sp_login, extract the form.
HopSp ==
    /\ pc = "s2"
    /\ \/ HopTimeout("S2", nextUrl, <<>>)
       \/ \E resp \in Answers(SpResponses, ExpectedSp) :
            HopDone("S2", nextUrl, <<>>, resp, SpStep(resp), "s3")
    /\ HopFrame

\* Mutant: the credential POST is prepared whatever the answer carries.
HopIdp_always_credentials ==
    /\ pc = "s3"
    /\ \/ HopTimeout("S3", nextUrl, payload)
       \/ \E resp \in Answers(IdpResponses, ExpectedIdp) :
            HopDone("S3", nextUrl, payload, resp,
                    CredentialStep(resp, signer.username, signer.password), "s4")
    /\ HopFrame

\* S3, signin.py 189-209 and 223-241: POST the federation request; then, when the
\* answer lacks the marker, prepare the credential POST, else the assertion POST.
HopIdp ==
    /\ pc = "s3"
    /\ \/ HopTimeout("S3", nextUrl, payload)
       \/ \E resp \in Answers(IdpResponses, ExpectedIdp) :
            IF ~HasSamlMarker(resp)
            THEN HopDone("S3", nextUrl, payload, resp,
                         CredentialStep(resp, signer.username, signer.password), "s4")
            ELSE HopDone("S3", nextUrl, payload, resp, ConsumeStep(resp), "s5")
    /\ HopFrame

\* S4, signin.py 211-241: POST the credentials, prepare the assertion POST.
HopCredential ==
    /\ pc = "s4"
    /\ \/ HopTimeout("S4", nextUrl, payload)
       \/ \E resp \in Answers(CredentialResponses, ExpectedCredential) :
            HopDone("S4", nextUrl, payload, resp, ConsumeStep(resp), "s5")
    /\ HopFrame

\* S5 and S6, signin.py 243-263: POST the assertion, check where it landed.
HopConsume ==
    /\ pc = "s5"
    /\ \/ HopTimeout("S5", nextUrl, payload)
       \/ \E resp \in Answers(LandingResponses, ExpectedLanding) :
            LET out == LandingStep(resp)
            IN  /\ reqLog' = Append(reqLog, Request("S5", nextUrl, payload, None, out.raised))
                /\ r' = Some(resp)
                /\ Receive(resp)
                /\ UNCHANGED <<nextUrl, payload>>
                /\ IF out.raised # None THEN Fail(out.raised[1])
                   ELSE exc' = None /\ pc' = "probe2"
    /\ HopFrame

\* get_user_info, signin.py 265-365: GET the home page, write it to
\* temp_page.html, scrape it.
Scrape ==
    /\ pc = "scrape"
    /\ \/ /\ service.mode = "any"
          /\ reqLog' = Append(reqLog, Request("home", NUEDC_HOME, <<>>, None,
                                                Some(ConnectionError)))
          /\ Fail(ConnectionError)
          /\ UNCHANGED <<r, session, tempPage, user_info>>
       \/ \E resp \in HomeResponses :
            /\ r' = Some(resp)
            /\ Receive(resp)
            /\ \/ /\ service.mode = "any"
                  /\ reqLog' = Append(reqLog, Request("home", NUEDC_HOME, <<>>, None,
                                                      Some(OSError)))
                  /\ Fail(OSError)
                  /\ UNCHANGED <<tempPage, user_info>>
               \/ /\ reqLog' = Append(reqLog, Request("home", NUEDC_HOME, <<>>, None, None))
                  /\ tempPage' = Some([owner |-> session.owner, doc |-> resp.doc])
                  /\ user_info' = Some(ScrapeProfile(resp.doc.profile))
                  /\ exc' = None
                  /\ pc' = "finish"
    /\ UNCHANGED <<driver, accounts, cookieArg, idx, signer, cookieFile, nextUrl, payload,
                   result, ret, signin_results, notified, service, accountsFile, handlers>>

\* run_signin's return, signin.py 392-411: the dict built from what sign()
\* returned, or from the exception it raised.
RunSigninEnd ==
    /\ driver = "batch" /\ pc = "finish"
    /\ ret' = Some(IF exc # None THEN RunSigninExcept(exc[1])
                   ELSE RunSigninReturn(result[1], user_info[1]))
    /\ pc' = "returned"
    /\ UNCHANGED <<driver, accounts, cookieArg, idx, signer, session, cookieFile, r, nextUrl,
                   payload, reqLog, result, exc, user_info, signin_results, tempPage, notified, service, accountsFile, handlers>>

\* Mutant: a failed account ends the loop.
BatchStore_stop_on_failure ==
    /\ driver = "batch" /\ pc = "returned"
    /\ signin_results' = DictSet(signin_results, accounts[idx].username, ret[1])
    /\ idx' = IF ret[1].success THEN idx + 1 ELSE Len(accounts) + 1
    /\ pc' = "loop"
    /\ signer' = NoSigner
    /\ session' = NoSession
    /\ r' = None
    /\ nextUrl' = <<>>
    /\ payload' = <<>>
    /\ reqLog' = <<>>
    /\ result' = None
    /\ exc' = None
    /\ user_info' = None
    /\ UNCHANGED <<driver, accounts, cookieArg, cookieFile, ret, tempPage, notified, service, accountsFile, handlers>>

\* The batch driver keeps the result under the entry's username and goes on
\* with the next entry (auto_signin_multi.py 44-46).  The signer, its session
\* and the locals of sign() ended with the call.
BatchStore ==
    /\ driver = "batch" /\ pc = "returned"
    /\ signin_results' = DictSet(signin_results, accounts[idx].username, ret[1])
    /\ idx' = idx + 1
    /\ pc' = "loop"
    /\ signer' = NoSigner
    /\ session' = NoSession
    /\ r' = None
    /\ nextUrl' = <<>>
    /\ payload' = <<>>
    /\ reqLog' = <<>>
    /\ result' = None
    /\ exc' = None
    /\ user_info' = None
    /\ UNCHANGED <<driver, accounts, cookieArg, cookieFile, ret, tempPage, notified, service, accountsFile, handlers>>

\* auto_signin_multi.main after the loop (55-82): with a result,
\* send_notification is called once, unless importing notify fails; without
\* a result nothing is sent.
Notify ==
    /\ driver = "batch" /\ pc = "loop" /\ idx > Len(accounts)
    /\ \/ /\ DOMAIN signin_results # {}
          /\ notified' = notified + 1
       \/ /\ DOMAIN signin_results # {}
          /\ notified' = notified
       \/ /\ DOMAIN signin_results = {}
          /\ notified' = notified
    /\ pc' = "done"
    /\ UNCHANGED <<driver, accounts, cookieArg, idx, signer, session, cookieFile, r, nextUrl,
                   payload, reqLog, result, exc, user_info, ret, signin_results, tempPage,
                   service, accountsFile, handlers>>

\* Mutant: the cookies are saved also when sign() raised.
CliFinish_always_saves ==
    /\ driver = "cli" /\ pc = "finish"
    /\ \/ /\ exc # None
          /\ cookieFile' = save_cookies(signer.cookie_file, cookieFile, session.cookies)
          /\ ret' = Some([exit |-> MainExit(exc, result)])
          /\ UNCHANGED exc
       \/ /\ exc = None
          /\ cookieFile' = save_cookies(signer.cookie_file, cookieFile, session.cookies)
          /\ ret' = Some([exit |-> MainExit(None, result)])
          /\ UNCHANGED exc
       \/ /\ exc = None /\ signer.cookie_file # None /\ service.mode = "any"
          /\ exc' = Some(OSError)
          /\ ret' = Some([exit |-> MainExit(Some(OSError), result)])
          /\ UNCHANGED cookieFile
    /\ pc' = "done"
    /\ UNCHANGED <<driver, accounts, cookieArg, idx, signer, session, r, nextUrl, payload,
                   reqLog, result, user_info, signin_results, tempPage, notified, service, accountsFile, handlers>>

\* nuedc_hz_signin.main after sign() (331-353): save_cookies when sign()
\* returned, then the exit code.
CliFinish ==
    /\ driver = "cli" /\ pc = "finish"
    /\ \/ /\ exc # None
          /\ ret' = Some([exit |-> MainExit(exc, result)])
          /\ UNCHANGED <<cookieFile, exc>>
       \/ /\ exc = None
          /\ cookieFile' = save_cookies(signer.cookie_file, cookieFile, session.cookies)
          /\ ret' = Some([exit |-> MainExit(None, result)])
          /\ UNCHANGED exc
       \/ /\ exc = None /\ signer.cookie_file # None /\ service.mode = "any"
          /\ exc' = Some(OSError)
          /\ ret' = Some([exit |-> MainExit(Some(OSError), result)])
          /\ UNCHANGED cookieFile
    /\ pc' = "done"
    /\ UNCHANGED <<driver, accounts, cookieArg, idx, signer, session, r, nextUrl, payload,
                   reqLog, result, user_info, signin_results, tempPage, notified, service, accountsFile, handlers>>

\* Mutant: the second call starts with a new, empty session.
SignReturn_fresh_session ==
    /\ driver = "twice" /\ pc = "finish"
    /\ IF exc # None
       THEN /\ pc' = "done"
            /\ UNCHANGED <<ret, r, nextUrl, payload, reqLog, result, user_info>>
       ELSE /\ ret' = Some(Append(ret[1], [result |-> result[1], user_info |-> user_info[1]]))
            /\ IF Len(ret[1]) = 0
               THEN /\ pc' = "probe1"
                    /\ r' = None
                    /\ nextUrl' = <<>>
                    /\ payload' = <<>>
                    /\ reqLog' = <<>>
                    /\ result' = None
                    /\ user_info' = None
               ELSE /\ pc' = "done"
                    /\ UNCHANGED <<r, nextUrl, payload, reqLog, result, user_info>>
    /\ session' = NewSession(session.owner)
    /\ UNCHANGED <<driver, accounts, cookieArg, idx, signer, cookieFile, exc,
                   signin_results, tempPage, notified, service, accountsFile, handlers>>

\* The caller of sign() that calls it once more on the same signer: it keeps
\* what the call returned (signin.py 371, 377) or sees its exception, and the
\* second call starts with the session the first one left.
SignReturn ==
    /\ driver = "twice" /\ pc = "finish"
    /\ IF exc # None
       THEN /\ pc' = "done"
            /\ UNCHANGED <<ret, r, nextUrl, payload, reqLog, result, user_info>>
       ELSE /\ ret' = Some(Append(ret[1], [result |-> result[1], user_info |-> user_info[1]]))
            /\ IF Len(ret[1]) = 0
               THEN /\ pc' = "probe1"
                    /\ r' = None
                    /\ nextUrl' = <<>>
                    /\ payload' = <<>>
                    /\ reqLog' = <<>>
                    /\ result' = None
                    /\ user_info' = None
               ELSE /\ pc' = "done"
                    /\ UNCHANGED <<r, nextUrl, payload, reqLog, result, user_info>>
    /\ UNCHANGED <<driver, accounts, cookieArg, idx, signer, session, cookieFile, exc,
                   signin_results, tempPage, notified, service, accountsFile, handlers>>

Next ==
    \/ BatchNext
    \/ CliStart
    \/ RequestSign
    \/ HopEntry
    \/ HopRedirect
    \/ HopSp
    \/ HopIdp
    \/ HopCredential
    \/ HopConsume
    \/ Scrape
    \/ RunSigninEnd
    \/ BatchStore
    \/ Notify
    \/ CliFinish
    \/ SignReturn

Spec == Init /\ [][Next]_vars

\* ------------------------------------------------------------ cookie store

\* Cookies a session may hold: with and without value, with an empty value,
\* host-only and with a dotted domain, secure, with and without expiry, of
\* one name on two hosts.
CookieUniverse ==
    { SessionCookie,
      StaleCookie,
      Cookie("token", None, <<".", "nuedc-training.com.cn">>, <<"/">>, TRUE, Some("future")),
      Cookie("lang", Some(""), <<"login.ti.com">>, <<"/", "as">>, FALSE, None),
      Cookie("PHPSESSID", Some("s2"), <<"sp.", "nuedc-training.com.cn">>, <<"/">>, FALSE, Some("future")) }

\* The jars over them: a jar holds one cookie per domain, path and name.
Jars == {J \in SUBSET CookieUniverse : \A c, d \in J : SameKey(c, d) => c = d}

\* A signer with a cookie file, holding some session, over some earlier file.
StoreInit ==
    /\ driver = "store"
    /\ accounts = <<Account(<<"A", "b">>, <<"pw1">>)>>
    /\ cookieArg = Some(CookiePath)
    /\ cookieFile \in CookieFiles
    /\ pc = "save"
    /\ signer = NewSigner(accounts[1].username, accounts[1].password, cookieArg)
    /\ session \in {[owner |-> accounts[1].username, cookies |-> J] : J \in Jars}
    /\ service = Upstream("any")
    /\ idx = 1
    /\ r = None
    /\ nextUrl = <<>>
    /\ payload = <<>>
    /\ reqLog = <<>>
    /\ result = None
    /\ exc = None
    /\ user_info = None
    /\ ret = None
    /\ signin_results = <<>>
    /\ tempPage = None
    /\ notified = 0
    /\ accountsFile = NoAccountsFile
    /\ handlers = <<>>

\* signer.save_cookies()
SaveStep ==
    /\ driver = "store" /\ pc = "save"
    /\ cookieFile' = save_cookies(signer.cookie_file, cookieFile, session.cookies)
    /\ pc' = "load"
    /\ UNCHANGED <<driver, accounts, cookieArg, idx, signer, session, r, nextUrl, payload,
                   reqLog, result, exc, user_info, ret, signin_results, tempPage, notified,
                   service, accountsFile, handlers>>

\* A new signer on the same cookie file, then signer.load_cookies() into its
\* fresh session.
LoadStep ==
    /\ driver = "store" /\ pc = "load"
    /\ LET loaded == load_cookies(signer.cookie_file, cookieFile, {})
       IN  IF loaded.raised # None
           THEN /\ exc' = loaded.raised
                /\ pc' = "done"
                /\ UNCHANGED session
           ELSE /\ session' = [owner |-> accounts[1].username, cookies |-> loaded.value[1]]
                /\ pc' = "loaded"
                /\ UNCHANGED exc
    /\ UNCHANGED <<driver, accounts, cookieArg, idx, signer, cookieFile, r, nextUrl, payload,
                   reqLog, result, user_info, ret, signin_results, tempPage, notified,
                   service, accountsFile, handlers>>

StoreNext ==
    \/ SaveStep
    \/ LoadStep

StoreSpec == StoreInit /\ [][StoreNext]_vars

\* ------------------------------------------------------------ form extraction alone

MaxForms == 2

\* Forms a page may carry: with and without action, with an empty action,
\* matching the login selector by class, by method, or not at all, with
\* unnamed inputs, repeated names and inputs without value.
FormUniverse ==
    { Form("", "post", Some(Idp \o <<"/", "sso">>), SamlRequestInputs),
      LoginForm,
      Form("search", "get", Some(<<"/", "q">>), <<Input(Some(<<"q">>), None)>>),
      Form("", "post", None, SamlRequestInputs),
      Form("paged-form-container", "get", Some(<<>>), <<Input(None, None)>>),
      Form("search", "get", None, <<>>) }

LoginSelector == "form.paged-form-container, form[method='post']"

\* A parsed page, and one of the two calls the code makes on it:
\* _extract_form(soup) at pc "find", _extract_form(soup, selector) at "select".
ExtractInit ==
    /\ driver = "extract"
    /\ r \in {Some(Page(Idp \o <<"/", "as", "/", "authorization">>, Doc(<<>>, f, {}))) :
                 f \in SeqsUpTo(FormUniverse, MaxForms)}
    /\ pc \in {"find", "select"}
    /\ accounts = <<>>
    /\ cookieArg = None
    /\ cookieFile = None
    /\ signer = NoSigner
    /\ session = NoSession
    /\ service = Upstream("any")
    /\ idx = 1
    /\ nextUrl = <<>>
    /\ payload = <<>>
    /\ reqLog = <<>>
    /\ result = None
    /\ exc = None
    /\ user_info = None
    /\ ret = None
    /\ signin_results = <<>>
    /\ tempPage = None
    /\ notified = 0
    /\ accountsFile = NoAccountsFile
    /\ handlers = <<>>

\* action, payload = self._extract_form(soup[, selector])
ExtractStep ==
    /\ driver = "extract" /\ pc \in {"find", "select"}
    /\ LET f == ExtractForm(r[1].doc, IF pc = "find" THEN None ELSE Some(LoginSelector))
       IN  IF f.raised # None
           THEN /\ exc' = f.raised
                /\ UNCHANGED <<nextUrl, payload>>
           ELSE /\ nextUrl' = f.value[1].action
                /\ payload' = f.value[1].payload
                /\ UNCHANGED exc
    /\ pc' = IF pc = "find" THEN "found" ELSE "selected"
    /\ UNCHANGED <<driver, accounts, cookieArg, idx, signer, session, cookieFile, r, reqLog,
                   result, user_info, ret, signin_results, tempPage, notified, service, accountsFile, handlers>>

ExtractNext == ExtractStep

ExtractSpec == ExtractInit /\ [][ExtractNext]_vars

\* ------------------------------------------------------------ account store (app.py)

MaxHandlers == 2

AppUsers == {<<"u1", "@", "ti">>, <<"u2", "@", "ti">>}

\* username.split("@")[0]
SplitHead(username) ==
    LET at == {i \in 1..Len(username) : username[i] = "@"}
    IN  IF at = {} THEN username
        ELSE SubSeq(username, 1, (CHOOSE i \in at : \A j \in at : i <= j) - 1)

\* The dict add_account appends, app.py 36-40.
StoredAccount(username, password, nickname) ==
    [username |-> username, password |-> password,
     nickname |-> IF nickname # <<>> THEN nickname ELSE SplitHead(username)]

\* The POSTs index() turns into add_account / delete_account, app.py 73-92.
AppRequests ==
    {[kind |-> k, username |-> u, password |-> <<"p">>, nickname |-> <<>>] :
        k \in {"add", "delete"}, u \in AppUsers}

\* accounts.json: a JSON list (state "list"), empty right after open(..., "w")
\* ("truncated"), or bytes of two writers that do not parse ("torn").  size is
\* the length of the text in it, counted in account records.
AccountsFile(list) == [state |-> "list", list |-> list, size |-> Len(list)]
Truncated == [state |-> "truncated", list |-> <<>>, size |-> 0]
Torn(size) == [state |-> "torn", list |-> <<>>, size |-> size]

JSONDecodeError == [type |-> "JSONDecodeError", msg |-> "Expecting value"]

MsgAccountExists == "zhanghao yi cunzai"
MsgAccountAdded == "zhanghao tianjia chenggong"
MsgAccountMissing == "zhanghao bu cunzai"
MsgAccountDeleted == "zhanghao shanchu chenggong"

\* load_accounts(), app.py 18-21: init_accounts finds the file, json.load
\* reads it; a file that is empty or torn does not parse.
LoadAccounts(file) ==
    IF file.state = "absent" THEN Return(<<>>)
    ELSE IF file.state = "list" THEN Return(file.list)
    ELSE Raise(JSONDecodeError)

\* What the file holds after a writer that opened it with "w" wrote its list
\* at offset 0 and closed: its text, unless a longer text was written there
\* since the writer's open truncated the file; then the rest of that text
\* follows the writer's and the file does not parse.
Flushed(file, list) ==
    IF Len(list) >= file.size THEN AccountsFile(list) ELSE Torn(file.size)

\* The lists without a repeated username over the accounts of AppUsers: what
\* earlier requests, handled one after the other, can have stored.
AppLists ==
    {l \in SeqsUpTo({StoredAccount(u, <<"p">>, <<>>) : u \in AppUsers}, 2) :
        \A i, j \in 1..Len(l) : l[i].username = l[j].username => i = j}

\* The server after app.py's start (init_accounts() ran, 105-107), with
\* MaxHandlers requests arrived, each in its own thread of the server.
AppInit ==
    /\ driver = "app"
    /\ accountsFile \in {AccountsFile(l) : l \in AppLists}
    /\ handlers \in [1..MaxHandlers ->
                        {[req |-> q, pc |-> "index", accounts |-> <<>>, result |-> None] :
                            q \in AppRequests}]
    /\ accounts = <<>>
    /\ cookieArg = None
    /\ cookieFile = None
    /\ pc = "serve"
    /\ signer = NoSigner
    /\ session = NoSession
    /\ service = Upstream("any")
    /\ idx = 1
    /\ r = None
    /\ nextUrl = <<>>
    /\ payload = <<>>
    /\ reqLog = <<>>
    /\ result = None
    /\ exc = None
    /\ user_info = None
    /\ ret = None
    /\ signin_results = <<>>
    /\ tempPage = None
    /\ notified = 0

AppFrame ==
    UNCHANGED <<driver, accounts, cookieArg, idx, pc, signer, session, cookieFile, r, nextUrl,
                payload, reqLog, result, exc, user_info, ret, signin_results, tempPage,
                notified, service>>

\* index(), app.py 60: accounts = get_all_accounts() for the page.
AppIndex(h) ==
    /\ driver = "app" /\ handlers[h].pc = "index"
    /\ handlers' = [handlers EXCEPT ![h].pc =
                        IF LoadAccounts(accountsFile).raised # None THEN "crashed" ELSE "load"]
    /\ UNCHANGED accountsFile
    /\ AppFrame

\* Mutant: add_account appends without looking for the username.
AppLoad_no_duplicate_check(h) ==
    /\ driver = "app" /\ handlers[h].pc = "load"
    /\ LET loaded == LoadAccounts(accountsFile)
           req == handlers[h].req
       IN  IF loaded.raised # None
           THEN handlers' = [handlers EXCEPT ![h].pc = "crashed"]
           ELSE LET accs == loaded.value[1]
                    kept == SelectSeq(accs, LAMBDA a : a.username # req.username)
                IN  IF req.kind = "add"
                    THEN handlers' = [handlers EXCEPT
                             ![h].accounts = Append(accs, StoredAccount(req.username,
                                                        req.password, req.nickname)),
                             ![h].pc = "open"]
                    ELSE IF Len(kept) = Len(accs)
                         THEN handlers' = [handlers EXCEPT
                                  ![h].result = Some([success |-> FALSE,
                                                      message |-> MsgAccountMissing]),
                                  ![h].pc = "done"]
                         ELSE handlers' = [handlers EXCEPT ![h].accounts = kept,
                                                           ![h].pc = "open"]
    /\ UNCHANGED accountsFile
    /\ AppFrame

\* add_account 30-40 and delete_account 46-49: load_accounts(), then the
\* work on the loaded list up to the return of failure or the call of
\* save_accounts.
AppLoad(h) ==
    /\ driver = "app" /\ handlers[h].pc = "load"
    /\ LET loaded == LoadAccounts(accountsFile)
           req == handlers[h].req
       IN  IF loaded.raised # None
           THEN handlers' = [handlers EXCEPT ![h].pc = "crashed"]
           ELSE LET accs == loaded.value[1]
                    kept == SelectSeq(accs, LAMBDA a : a.username # req.username)
                IN  IF req.kind = "add"
                    THEN IF \E i \in 1..Len(accs) : accs[i].username = req.username
                         THEN handlers' = [handlers EXCEPT
                                  ![h].result = Some([success |-> FALSE,
                                                      message |-> MsgAccountExists]),
                                  ![h].pc = "done"]
                         ELSE handlers' = [handlers EXCEPT
                                  ![h].accounts = Append(accs, StoredAccount(req.username,
                                                             req.password, req.nickname)),
                                  ![h].pc = "open"]
                    ELSE IF Len(kept) = Len(accs)
                         THEN handlers' = [handlers EXCEPT
                                  ![h].result = Some([success |-> FALSE,
                                                      message |-> MsgAccountMissing]),
                                  ![h].pc = "done"]
                         ELSE handlers' = [handlers EXCEPT ![h].accounts = kept,
                                                           ![h].pc = "open"]
    /\ UNCHANGED accountsFile
    /\ AppFrame

\* save_accounts, app.py 25: open(ACCOUNTS_FILE, "w") empties the file.
AppOpen(h) ==
    /\ driver = "app" /\ handlers[h].pc = "open"
    /\ accountsFile' = Truncated
    /\ handlers' = [handlers EXCEPT ![h].pc = "dump"]
    /\ AppFrame

\* save_accounts, app.py 26: json.dump and the close that writes the text;
\* then add_account / delete_account return success (42, 51).
AppDump(h) ==
    /\ driver = "app" /\ handlers[h].pc = "dump"
    /\ accountsFile' = Flushed(accountsFile, handlers[h].accounts)
    /\ handlers' = [handlers EXCEPT
           ![h].result = Some([success |-> TRUE,
                               message |-> IF handlers[h].req.kind = "add"
                                           THEN MsgAccountAdded ELSE MsgAccountDeleted]),
           ![h].pc = "done"]
    /\ AppFrame

AppNext ==
    \/ \E h \in DOMAIN handlers : AppIndex(h)
    \/ \E h \in DOMAIN handlers : AppLoad(h)
    \/ \E h \in DOMAIN handlers : AppOpen(h)
    \/ \E h \in DOMAIN handlers : AppDump(h)

AppSpec == AppInit /\ [][AppNext]_vars

\* ------------------------------------------------------------ observations

Last(seq) == seq[Len(seq)]

Probes == SelectSeq(reqLog, LAMBDA q : q.hop = "probe")
LoginRequests == SelectSeq(reqLog, LAMBDA q : q.hop \in {"S0", "S1", "S2", "S3", "S4", "S5"})
CountHop(hop) == Len(SelectSeq(reqLog, LAMBDA q : q.hop = hop))

\* login_via_ti was called: it is about to issue S0 or has issued it.
LoginRun == pc = "s0" \/ CountHop("S0") > 0

\* login_via_ti returned normally: the S5 landing passed both checks.
LoggedIn == \E i \in 1..Len(reqLog) : reqLog[i].hop = "S5" /\ reqLog[i].err = None

\* The response of the last request is in r: the request was the given hop
\* and it came back.
Arrived(hop) ==
    /\ reqLog # <<>>
    /\ Last(reqLog).hop = hop
    /\ Last(reqLog).err # Some(ConnectionError)
    /\ r # None

\* sign() has ended, by return or by exception.
SignEnded == pc \in {"finish", "returned", "done"} /\ reqLog # <<>>

\* ------------------------------------------------------------ claims

\* C1: in one sign() attempt login_via_ti is run if and only if the first
\* status probe returned status 2, at most once; the status endpoint is probed
\* at most twice, and the second probe happens exactly once, right after
\* login_via_ti completed as LoggedIn and only then.
C1_LoginIffFirstProbeNeedsLogin ==
    /\ Len(Probes) <= 2
    /\ CountHop("S0") <= 1
    /\ LoginRun <=> (Len(Probes) >= 1 /\ Probes[1].status = Some(2))
    /\ (pc = "probe2" \/ Len(Probes) = 2) => LoggedIn
    /\ (LoggedIn /\ pc # "probe2") => Len(Probes) = 2
    /\ \A i \in 1..Len(reqLog) :
         (reqLog[i].hop = "probe" /\ i > 1) => reqLog[i - 1].hop = "S5" /\ reqLog[i - 1].err = None

C1_Witness ==
    /\ Len(Probes) = 2
    /\ LoggedIn
    /\ CountHop("S0") = 1
    /\ Probes[1].status = Some(2)

LandsOnBindingPath(url) == StartsWith(UrlPath(url), <<"/", "index", "/", "saml", "/", "binding">>)

BindingRaised == exc = Some(BindingRequiredError)

\* C3 as claimed: login_via_ti ends in BindingRequired if and only if the path
\* of the landing URL after the S5 POST is the account-binding path.
C3_BindingIffLandingPath ==
    Arrived("S5") => (BindingRaised <=> LandsOnBindingPath(r[1].url))

\* C3 as amended: login_via_ti ends in BindingRequired if and only if the
\* landing host contains the target domain's name and the landing path starts
\* with the account-binding path; never for a landing on the home or sign page.
C3_BindingIffHostAndLandingPath ==
    Arrived("S5") =>
        /\ BindingRaised <=>
              (Contains(Netloc(r[1].url), <<"nuedc-training.com.cn">>) /\ LandsOnBindingPath(r[1].url))
        /\ r[1].url \in {NUEDC_HOME, NUEDC_SIGN_URL} => ~BindingRaised

C3_Witness ==
    /\ Arrived("S5")
    /\ BindingRaised
    /\ LandsOnBindingPath(r[1].url)

\* C4: a BindingRequired outcome reaches the caller as an outcome no generic
\* failure has: run_signin's result carries the binding message exactly when
\* the login ended in BindingRequired, main's exit code is 3 exactly then, and
\* the entry the batch driver keeps is that result.
C4_BindingRequiredIsDistinct ==
    /\ (driver = "batch" /\ pc = "returned") =>
          (BindingRaised <=> ret[1].message[1] = MsgNeedBinding)
    /\ (driver = "cli" /\ pc = "done") =>
          (BindingRaised <=> ret = Some([exit |-> 3]))
    /\ (driver = "batch" /\ pc = "loop" /\ ret # None) =>
          \E u \in DOMAIN signin_results : signin_results[u] = ret[1]

C4_Witness ==
    /\ driver = "batch" /\ pc = "loop"
    /\ \E u \in DOMAIN signin_results : signin_results[u].message[1] = MsgNeedBinding

\* The failure kinds of the hops, as the messages of the RuntimeErrors raised.
EntryNotFound == {RuntimeError("myTI login entry not found.")}
RedirectNotFound == {RuntimeError("SSO redirect link not found.")}
FormNotFound == {RuntimeError("Failed to find form in page."), RuntimeError("Form action is missing.")}

\* The page has no anchor of the given class and id (either may be left
\* open as "") that carries a non-empty href.
LacksAnchor(doc, cls, id) ==
    \A i \in 1..Len(doc.anchors) :
        ((cls = "" \/ doc.anchors[i].cls = cls) /\ (id = "" \/ doc.anchors[i].id = id)) =>
            (doc.anchors[i].href = None \/ doc.anchors[i].href[1] = <<>>)

\* The page has no form that carries a non-empty action.
LacksForm(doc) ==
    \A i \in 1..Len(doc.forms) :
        doc.forms[i].action = None \/ doc.forms[i].action[1] = <<>>

\* C5: when the page of hop S0, S1 or S2 lacks the expected element (the
\* start-SSO anchor with an href, the auto-submit anchor with an href, a form
\* with an action), login_via_ti fails with that hop's own failure kind,
\* EntryNotFound, RedirectNotFound or FormNotFound, and with no other.
C5_HopSpecificFailure ==
    /\ (Arrived("S0") /\ LacksAnchor(r[1].doc, "loginMyti-btn1", "")) =>
          (exc # None /\ exc[1] \in EntryNotFound /\ SignEnded)
    /\ (Arrived("S1") /\ LacksAnchor(r[1].doc, "", "href")) =>
          (exc # None /\ exc[1] \in RedirectNotFound /\ SignEnded)
    /\ (Arrived("S2") /\ LacksForm(r[1].doc)) =>
          (exc # None /\ exc[1] \in FormNotFound /\ SignEnded)

C5_Witness ==
    /\ Arrived("S1")
    /\ LacksAnchor(r[1].doc, "", "href")
    /\ exc # None /\ exc[1] \in RedirectNotFound

HopRank(hop) ==
    CASE hop = "S0" -> 0 [] hop = "S1" -> 1 [] hop = "S2" -> 2
      [] hop = "S3" -> 3 [] hop = "S4" -> 4 [] hop = "S5" -> 5

\* C6: within one login attempt the requests are issued in the order S0, S1,
\* S2, S3, (S4), S5, each at most once; a request that failed (by an
\* expectation miss or a transport error) is the last request of the attempt,
\* and the attempt ends with that failure.
C6_HopsInOrderNoRetry ==
    LET hops == LoginRequests
    IN  /\ hops # <<>> => hops[1].hop = "S0"
        /\ \A i \in 1..(Len(hops) - 1) :
              \/ HopRank(hops[i + 1].hop) = HopRank(hops[i].hop) + 1
              \/ (hops[i].hop = "S3" /\ hops[i + 1].hop = "S5")
        /\ \A i \in 1..Len(reqLog) : reqLog[i].err # None => i = Len(reqLog)
        /\ (reqLog # <<>> /\ Last(reqLog).err # None) =>
              /\ pc \in {"finish", "returned", "done"}
              /\ exc = Last(reqLog).err
              /\ (driver = "batch" /\ pc = "returned") =>
                    (ret[1].success = FALSE /\ ret[1].error = exc[1].msg)
              /\ (driver = "cli" /\ pc = "done") => ret[1].exit \in {1, 3}

C6_Witness ==
    /\ Len(LoginRequests) = 6
    /\ Last(reqLog).hop = "S5"
    /\ Last(reqLog).err = Some(ConnectionError)
    /\ pc = "returned"

\* sign() got a SignResult from its last status probe: the first probe did
\* not ask for a login, or the re-probe after the login returned.
FinalProbeReturned ==
    /\ Probes # <<>>
    /\ Last(Probes).status # None
    /\ (Len(Probes) = 2 \/ Probes[1].status # Some(2))

\* C7: no failure inside get_user_info changes the outcome of the sign
\* operation: whenever the final status probe returned a SignResult,
\* run_signin gives the caller that SignResult together with a UserProfile.
C7_ProfileFailuresAbsorbed ==
    (driver = "batch" /\ pc = "returned" /\ FinalProbeReturned) =>
        /\ DOMAIN ret[1] = {"success", "status", "info", "sign_count", "user_info", "message"}
        /\ ret[1].status = Last(Probes).status[1]

ValidEntry(a) == a.username # <<>> /\ a.password # <<>>

StructuredResult(d) == {"success", "message"} \subseteq DOMAIN d

\* C8: in a batch, whatever the outcome of one account's attempt, run_signin
\* returns a structured result for it and the driver goes on with the later
\* accounts in list order: the results kept are those of the valid entries
\* before the loop position, and the loop ends only past the last entry.
C8_BatchGoesOn ==
    driver = "batch" =>
        /\ idx \in 1..(Len(accounts) + 1)
        /\ DOMAIN signin_results = {accounts[i].username : i \in {j \in 1..(idx - 1) : ValidEntry(accounts[j])}}
        /\ \A u \in DOMAIN signin_results : StructuredResult(signin_results[u])
        /\ pc = "returned" => StructuredResult(ret[1])
        /\ pc = "done" => idx = Len(accounts) + 1

C8_Witness ==
    /\ driver = "batch" /\ pc = "done"
    /\ Len(accounts) = 2
    /\ accounts[1].username # accounts[2].username
    /\ {accounts[1].username, accounts[2].username} \subseteq DOMAIN signin_results
    /\ "error" \in DOMAIN signin_results[accounts[1].username]
    /\ signin_results[accounts[2].username].success

\* C9: no state on disk written during one account's attempt is overwritten
\* by another account's attempt: once an attempt wrote temp_page.html, only
\* attempts of the same account write it.
C9_NoStateSharedAcrossAccounts ==
    /\ [](driver = "batch" /\ pc \notin {"loop", "done"} => session.owner = accounts[idx].username)
    /\ [][(tempPage # None /\ tempPage' # None) => tempPage'[1].owner = tempPage[1].owner]_vars

\* C10: when the body of the status response does not parse and the path of
\* the final URL contains the login marker, _request_sign raises nothing and
\* returns the synthesized SignResult with status 2 and no streak.
C10_LoginMarkerSynthesizesNeedLogin ==
    (Arrived("probe") /\ r[1].json = None /\ Contains(UrlPath(r[1].url), <<"index", "/", "login">>)) =>
        /\ Last(reqLog).err = None
        /\ result = Some(SignResult(2, "need login", None))
        /\ Last(reqLog).status = Some(2)

C10_Witness ==
    /\ Arrived("probe")
    /\ r[1].json = None
    /\ Contains(UrlPath(r[1].url), <<"index", "/", "login">>)
    /\ result # None /\ result[1].status = 2 /\ result[1].sign_count = None


\* C11: when the body of the status response does not parse and the path of
\* the final URL does not contain the login marker, wherever else in the URL
\* the marker occurs, _request_sign raises the unexpected-response error,
\* returns no SignResult, and a first probe is followed by no login.
C11_NoMarkerInPathIsUnexpectedShape ==
    (Arrived("probe") /\ r[1].json = None /\ ~Contains(UrlPath(r[1].url), <<"index", "/", "login">>)) =>
        /\ Last(reqLog).err = Some(RuntimeError("Unexpected sign response."))
        /\ Last(reqLog).status = None
        /\ Len(Probes) = 1 => ~LoginRun


\* The integer a JSON value stands for: a number, or a string of decimal
\* digits; None for anything else.
IntegerOf(v) ==
    IF v.t = "int" THEN Some(v.n)
    ELSE IF v.t = "str" /\ v.s # <<>> /\ \A i \in 1..Len(v.s) : IsDigit(v.s[i])
    THEN Some(DecimalValue(v.s))
    ELSE None

\* The status of a JSON object body: its status field as an integer, -1
\* when the body has no status field, None when the field is no integer.
BodyStatus(j) == IF j.status = None THEN Some(0 - 1) ELSE IntegerOf(j.status[1])

\* The streak of a JSON object body: the nested sign_count as an integer,
\* None when the nested data or the counter is missing or is no integer.
BodyStreak(j) ==
    IF j.data = None \/ ~j.data[1].isDict \/ j.data[1].sign_count = None THEN None
    ELSE IntegerOf(j.data[1].sign_count[1])

StoredCookies == {ParseLine(l) : l \in cookieFile[1].lines}

\* C13: a session persists across runs, for the CLI main and for run_signin:
\* when a run in which the login reached LoggedIn has ended with sign()
\* returning (and persistence was not switched off on the command line), the
\* cookie store holds the cookies of its session; a run starts from the
\* cookies in the store; and started from a session cookie the upstream
\* still accepts, the first probe is not needsLogin and no login is run.
C13_SessionPersistsAcrossRuns ==
    /\ (driver \in {"batch", "cli"} /\ pc \in {"returned", "done"} /\ LoggedIn /\ exc = None
            /\ (driver = "cli" => cookieArg # None)) =>
          (cookieFile # None /\ cookieFile[1].valid /\ StoredCookies = session.cookies)
    /\ (driver \in {"batch", "cli"} /\ pc = "probe1" /\ cookieFile # None /\ cookieFile[1].valid
            /\ (driver = "cli" => cookieArg # None)) =>
          session.cookies = StoredCookies
    /\ (driver \in {"batch", "cli"} /\ service.mode = "expected" /\ pc \notin {"probe1", "done"}
            /\ cookieFile # None /\ cookieFile[1].valid /\ SessionCookie \in StoredCookies
            /\ (driver = "cli" => cookieArg # None) /\ Probes # <<>>) =>
          (Probes[1].status # Some(2) /\ ~LoginRun)


FourTuples(jar) == {<<c.name, c.value, c.domain, c.path>> : c \in jar}

\* C14: save_cookies followed by load_cookies into a fresh session yields
\* exactly the (name, value, domain, path) tuples of the saved session, and
\* the file holds one line per cookie of the session: what the file held
\* before the save is gone.  Neither call raises.
C14_SaveThenLoadRoundTrips ==
    /\ [](pc = "load" =>
            (cookieFile # None /\ Cardinality(cookieFile[1].lines) = Cardinality(session.cookies)))
    /\ [][(pc = "load" /\ pc' = "loaded") =>
            FourTuples(session'.cookies) = FourTuples(session.cookies)]_vars
    /\ [](exc = None)

C14_Witness ==
    /\ driver = "store" /\ pc = "loaded"
    /\ Cardinality(session.cookies) >= 3
    /\ \E c \in session.cookies : c.value = None
    /\ \E c \in session.cookies : c.value = Some("")
    /\ cookieFile[1].lines = SavedCookies(session.cookies)


\* C15: load_cookies on a cookie file that does not exist leaves the session
\* empty and raises nothing; on an existing file it loads every cookie
\* whatever its expiry, and a cookie past its expiry is still in the session
\* and is sent with the next status probe.
C15_ExpiredCookiesLoadedAndSent ==
    (driver = "cli" /\ cookieArg # None) =>
        /\ (pc = "probe1" /\ cookieFile = None) => (session.cookies = {} /\ exc = None)
        /\ (pc = "probe1" /\ cookieFile # None) => StoredCookies \subseteq session.cookies
        /\ (Len(reqLog) = 1 /\ reqLog[1].hop = "probe" /\ cookieFile # None /\ pc # "done") =>
              \A c \in StoredCookies :
                  IsExpired(c) => (c \in session.cookies /\ c \in reqLog[1].cookies)


\* C16: sign() called twice on one signer whose session is (or by the first
\* call becomes) authenticated, against an upstream that grants the daily
\* sign-in once: the first call returns status 1, the second status 0; the
\* second call issues one probe and no login request; and from the first
\* return on nothing changes on the upstream's side.
C16_SecondSignIsAlreadyDone ==
    /\ [](driver = "twice" =>
            /\ exc = None
            /\ Len(ret[1]) >= 1 =>
                  /\ ret[1][1].result.status = 1
                  /\ service.signed = {Identity}
                  /\ ~LoginRun
                  /\ Len(Probes) <= 1
                  /\ LoginRequests = <<>>
            /\ Len(ret[1]) = 2 => ret[1][2].result.status = 0)
    /\ [][(driver = "twice" /\ Len(ret[1]) >= 1) => service' = service]_vars

C16_Witness ==
    /\ driver = "twice" /\ pc = "done"
    /\ Len(ret[1]) = 2
    /\ ret[1][1].result.status = 1
    /\ ret[1][2].result.status = 0
    /\ Len(Probes) = 1


\* The running attempt is the first one of its account in this run.
FirstAttemptOfAccount ==
    \A j \in 1..(idx - 1) :
        ValidEntry(accounts[j]) => Lower(Strip(accounts[j].username)) # Identity

\* C17: end to end, from an empty cookie store, with credentials the identity
\* provider accepts and an upstream that answers every hop as designed: the
\* first probe is needsLogin, the login flow issues S0 to S5 once each without
\* error and passes the landing checks (LoggedIn), the one re-probe returns
\* status 1, and the final result is ok with a numeric streak (run_signin:
\* success true; main: exit code 0).
C17_EndToEndSucceeds ==
    (/\ service.mode = "expected"
     /\ \/ driver = "batch" /\ pc = "returned" /\ FirstAttemptOfAccount
        \/ driver = "cli" /\ pc = "finish" /\ (cookieArg = None \/ cookieFile = None)) =>
        /\ exc = None
        /\ [i \in 1..Len(Probes) |-> Probes[i].status] = <<Some(2), Some(1)>>
        /\ [i \in 1..Len(LoginRequests) |-> LoginRequests[i].hop] = <<"S0", "S1", "S2", "S3", "S4", "S5">>
        /\ \A i \in 1..Len(reqLog) : reqLog[i].err = None
        /\ LoggedIn
        /\ Last(Probes).cookies = {SessionCookie}
        /\ ok(result[1]) /\ result[1].status = 1
        /\ result[1].sign_count # None /\ result[1].sign_count[1] \in Nat
        /\ driver = "batch" =>
              (ret[1].success /\ ret[1].status = 1 /\ ret[1].sign_count = result[1].sign_count)
        /\ driver = "cli" => MainExit(exc, result) = 0

C17_Witness ==
    /\ service.mode = "expected" /\ driver = "batch" /\ pc = "returned"
    /\ Len(LoginRequests) = 6
    /\ LoggedIn
    /\ ret[1].success
    /\ ret[1].sign_count = Some(7)


\* The login flow of the run ended in BindingRequired.
EndedInBindingRequired ==
    \E i \in 1..Len(reqLog) : reqLog[i].err = Some(BindingRequiredError)

\* C18: main returns 2 exactly when username or password is missing, 3
\* exactly when the login flow ended in BindingRequired, 0 exactly when a
\* SignResult was obtained with ok true, 1 in every other case, and no
\* other code.
C18_ExitCodes ==
    (driver = "cli" /\ pc = "done") =>
        /\ ret # None /\ ret[1].exit \in {0, 1, 2, 3}
        /\ ret[1].exit = 2 <=> ~ValidEntry(accounts[1])
        /\ ret[1].exit = 3 <=> EndedInBindingRequired
        /\ ret[1].exit = 0 <=> (FinalProbeReturned /\ ok(result[1]))
        /\ ret[1].exit = 1 <=>
              (/\ ValidEntry(accounts[1])
               /\ ~EndedInBindingRequired
               /\ ~(FinalProbeReturned /\ ok(result[1])))


UsernameField == <<"pf.username">>
PasswordField == <<"pf.pass">>
SubmitField == <<"loginbutton">>

\* The value the last input named k of a form carries ("" when it has none).
FieldValue(form, k) ==
    LET at == {i \in 1..Len(form.inputs) : form.inputs[i].name = Some(k)}
        last == CHOOSE i \in at : \A j \in at : j <= i
    IN  IF form.inputs[last].value = None THEN <<>> ELSE form.inputs[last].value[1]

\* The credential POST prepared from the login form of the S3 answer, and
\* every S4 request sent, carry the form's named fields with their values,
\* the password, the submit marker, and name as the username; no other
\* request carries a username field.
S4CarriesFormAndCredentials(name) ==
    /\ pc = "s4" =>
          LET form == SelectFirst(r[1].doc.forms,
                                  "form.paged-form-container, form[method='post']")[1]
              named == {form.inputs[i].name[1] :
                           i \in {j \in 1..Len(form.inputs) : ~Falsy(form.inputs[j].name)}}
          IN  /\ DOMAIN payload = named \cup {UsernameField, PasswordField, SubmitField}
              /\ \A k \in named \ {UsernameField, PasswordField, SubmitField} :
                    payload[k] = FieldValue(form, k)
              /\ payload[UsernameField] = name
              /\ payload[PasswordField] = accounts[idx].password
              /\ payload[SubmitField] = <<"login">>
    /\ \A i \in 1..Len(reqLog) :
          IF reqLog[i].hop = "S4"
          THEN reqLog[i].data[UsernameField] = name
          ELSE UsernameField \notin DOMAIN reqLog[i].data

\* The attempt of accounts[idx] is running: its signer exists.
AttemptRunning == driver \in {"batch", "cli", "twice"} /\ signer # NoSigner

\* C19 as claimed: the S4 POST carries the form's fields plus username,
\* password and submit marker; the username sent is the caller's username
\* lower-cased, and the username is altered nowhere else between the caller
\* and the POST.
C19_UsernameLoweredAtS4Only ==
    AttemptRunning =>
        /\ signer.username = accounts[idx].username
        /\ S4CarriesFormAndCredentials(Lower(accounts[idx].username))

\* C19 as amended: the constructor strips surrounding whitespace from the
\* username and does not change its case; the S4 POST carries the form's
\* fields plus password, submit marker and the stripped username lower-cased;
\* lower-casing happens at S4 only and no other request carries the username.
C19_UsernameStrippedThenLoweredAtS4 ==
    AttemptRunning =>
        /\ signer.username = Strip(accounts[idx].username)
        /\ S4CarriesFormAndCredentials(Lower(Strip(accounts[idx].username)))

C19_Witness ==
    /\ AttemptRunning
    /\ accounts[idx].username = <<" ", "B">>
    /\ \E i \in 1..Len(reqLog) :
          /\ reqLog[i].hop = "S4"
          /\ reqLog[i].data[UsernameField] = <<"b">>
          /\ reqLog[i].data[<<"pf.adapterId">>] = <<"ti">>

\* The number the currency-keyword search yields on a page: the first number
\* of the first element near a keyword text node whose text holds a number.
KeywordNumber(profile) ==
    LET elems == Flatten(profile.kw)
        hits == {i \in 1..Len(elems) : Len(elems[i]) > 0}
    IN  IF hits = {} THEN None
        ELSE Some(Head(elems[CHOOSE i \in hits : \A j \in hits : i <= j]))

\* The number the known selectors yield: the first number of the first
\* selector, in list order, whose element exists and holds a number.
SelectorNumber(profile) ==
    LET hits == {i \in 1..Len(profile.sel) :
                    profile.sel[i] # None /\ Len(profile.sel[i][1]) > 0}
    IN  IF hits = {} THEN None
        ELSE Some(Head(profile.sel[CHOOSE i \in hits : \A j \in hits : i <= j][1]))

\* The largest numeric token of the page, when one is positive.
LargestNumber(profile) ==
    LET tokens == {profile.nums[i] : i \in 1..Len(profile.nums)}
    IN  IF \A n \in tokens : n = 0 THEN None
        ELSE Some(CHOOSE m \in tokens : \A n \in tokens : n <= m)

\* The balance a cascade of stages decides: the first stage that yields a
\* number, 0 when none does.
Decided(stages) ==
    IF FirstSome(stages) = None THEN 0 ELSE FirstSome(stages)[1]

\* The home page was fetched and scraped, and r still holds it.
Scraped == pc = "finish" /\ user_info # None /\ r # None /\ exc = None

\* C20 as claimed: the cascade for the currency amount runs selectors, then
\* keyword search, then largest number, and the first stage that yields a
\* number decides the balance; where a selector and the keyword search both
\* yield numbers the selector's number is reported.
C20_CascadeSelectorsKeywordLargest ==
    Scraped =>
        LET profile == r[1].doc.profile
        IN  user_info[1].hz_coins =
                Decided(<<SelectorNumber(profile), KeywordNumber(profile),
                          LargestNumber(profile)>>)

\* C20 as amended: the cascade for the currency amount runs keyword search,
\* then selectors, then largest number, and the first stage that yields a
\* number decides the balance; where a selector and the keyword search both
\* yield numbers the keyword search's number is reported, and the last
\* stage's result is the maximum numeric token of the page.
C20_CascadeKeywordSelectorsLargest ==
    Scraped =>
        LET profile == r[1].doc.profile
        IN  /\ user_info[1].hz_coins =
                  Decided(<<KeywordNumber(profile), SelectorNumber(profile),
                            LargestNumber(profile)>>)
            /\ (KeywordNumber(profile) = None /\ SelectorNumber(profile) = None
                    /\ profile.nums # <<>>)
                  => /\ \E i \in 1..Len(profile.nums) : user_info[1].hz_coins = profile.nums[i]
                     /\ \A i \in 1..Len(profile.nums) : profile.nums[i] <= user_info[1].hz_coins

C20_Witness ==
    /\ Scraped
    /\ KeywordNumber(r[1].doc.profile) = Some(30)
    /\ SelectorNumber(r[1].doc.profile) = Some(50)
    /\ user_info[1].hz_coins = 30

\* The forms of the page a call of _extract_form may choose from, as
\* positions in document order: with the selector of the login form those of
\* class paged-form-container or of method post, without selector all.
Candidates ==
    {i \in 1..Len(r[1].doc.forms) :
        pc = "selected" =>
            (r[1].doc.forms[i].cls = "paged-form-container" \/ r[1].doc.forms[i].method = "post")}

\* The form the call chooses: the first candidate.
Chosen == r[1].doc.forms[CHOOSE i \in Candidates : \A j \in Candidates : i <= j]

Extracted == driver = "extract" /\ pc \in {"found", "selected"}

\* The call returned the action and the named fields of the chosen form:
\* unnamed inputs ignored, the last value of a repeated name, "" for an input
\* without value.
ReturnedChosenForm ==
    /\ exc = None
    /\ nextUrl = Chosen.action[1]
    /\ DOMAIN payload = {Chosen.inputs[k].name[1] :
                            k \in {j \in 1..Len(Chosen.inputs) : ~Falsy(Chosen.inputs[j].name)}}
    /\ \A n \in DOMAIN payload : payload[n] = FieldValue(Chosen, n)

\* C21 as claimed: _extract_form fails with FormNotFound when no form matches
\* the selector, when there is no form at all (no selector), and when the
\* chosen form has no action attribute; otherwise, without selector, it
\* returns the action and named fields of the first form.
C21_FormNotFoundOrFirstForm ==
    Extracted =>
        /\ Candidates = {} => (exc # None /\ exc[1] \in FormNotFound)
        /\ (Candidates # {} /\ Chosen.action = None) => (exc # None /\ exc[1] \in FormNotFound)
        /\ (pc = "found" /\ Candidates # {} /\ Chosen.action # None) => ReturnedChosenForm

\* C21 as amended: _extract_form fails with FormNotFound when no form matches
\* the selector, when there is no form at all (no selector), and when the
\* chosen form (the first match, whatever later forms carry) has no action
\* attribute or an empty one; otherwise it returns the action and named fields
\* of the chosen form, without selector the first form in document order.
C21_FormNotFoundAlsoOnEmptyAction ==
    Extracted =>
        /\ Candidates = {} => exc = Some(RuntimeError("Failed to find form in page."))
        /\ (Candidates # {} /\ (Chosen.action = None \/ Chosen.action = Some(<<>>)))
              => exc = Some(RuntimeError("Form action is missing."))
        /\ (Candidates # {} /\ Chosen.action # None /\ Chosen.action # Some(<<>>))
              => ReturnedChosenForm
        /\ (pc = "found" /\ Candidates # {}) => Chosen = r[1].doc.forms[1]

C21_Witness ==
    /\ Extracted /\ pc = "found"
    /\ Len(r[1].doc.forms) = 2
    /\ r[1].doc.forms[1].inputs = SamlRequestInputs
    /\ r[1].doc.forms[2] = LoginForm
    /\ exc = None
    /\ DOMAIN payload = {<<"SAMLRequest">>, <<"RelayState">>}
    /\ payload[<<"RelayState">>] = <<>>

\* The host of a URL is the target domain or one of its subdomains.
HostBelongsToTarget(url) ==
    LET host == Netloc(url)
    IN  /\ host # <<>>
        /\ host[Len(host)] = "nuedc-training.com.cn"
        /\ \A i \in 1..(Len(host) - 1) : host[i] \in {"www.", "sp."}

\* C22: login_via_ti reaches LoggedIn only if the host of the landing URL
\* after the S5 POST is the target domain or one of its subdomains; for every
\* other landing host, one that merely contains the target domain's name
\* included, the flow ends in the generic upstream failure and never in
\* LoggedIn or BindingRequired.
C22_LoggedInOnlyOnTargetHost ==
    Arrived("S5") =>
        /\ LoggedIn => HostBelongsToTarget(r[1].url)
        /\ ~HostBelongsToTarget(r[1].url) =>
              /\ exc = Some(RuntimeError("SSO callback not completed."))
              /\ ~LoggedIn
              /\ ~BindingRaised

LoginRejected == RuntimeError("TI login did not return SAMLResponse.")

\* r is the response that enters the assertion-consume hop: the S4 response,
\* or the S3 response when it carries the marker and S4 is skipped.
EntersConsume == Arrived("S4") \/ (Arrived("S3") /\ HasSamlMarker(r[1]))

\* C23: the login flow fails with LoginRejected exactly when the response
\* that enters the assertion-consume hop lacks the federation-response marker;
\* the S5 POST is never sent without the marker, and a response carrying the
\* marker never yields LoginRejected.
C23_LoginRejectedIffMarkerMissing ==
    /\ [](EntersConsume => (exc = Some(LoginRejected) <=> ~HasSamlMarker(r[1])))
    /\ [](exc = Some(LoginRejected) => (Arrived("S4") /\ CountHop("S5") = 0))
    /\ [](pc = "s5" => (r # None /\ HasSamlMarker(r[1])))
    /\ [][CountHop("S5")' > CountHop("S5") => (pc = "s5" /\ HasSamlMarker(r[1]))]_vars

C23_Witness ==
    /\ Arrived("S4")
    /\ ~HasSamlMarker(r[1])
    /\ exc = Some(LoginRejected)
    /\ SignEnded

\* A logged request carries the signer's username (as given to the signer or
\* lower-cased) or its password in one of its form fields.
CarriesCredentials(q) ==
    \E k \in DOMAIN q.data :
        q.data[k] \in {signer.username, Lower(signer.username), signer.password}

CredentialRequests == {i \in 1..Len(reqLog) : CarriesCredentials(reqLog[i])}

C24_WitnessSkipped ==
    /\ AttemptRunning
    /\ CountHop("S5") = 1 /\ CountHop("S4") = 0
    /\ CredentialRequests = {}

\* sign() of signin.py is the one running (the CLI's sign() has no scraper).
ScrapingSign == driver \in {"batch", "twice"}

\* C25: the profile scrape is attempted exactly once per sign() attempt, right
\* after the last status probe of the attempt and whatever status that probe
\* returned; it is never attempted before the first probe, between the first
\* probe and the login flow, or after a login flow that ended in
\* BindingRequired or in a failure.
C25_ScrapeOnceAfterLastProbe ==
    ScrapingSign =>
        /\ CountHop("home") <= 1
        /\ CountHop("home") = 1 =>
              /\ Last(reqLog).hop = "home"
              /\ reqLog[Len(reqLog) - 1].hop = "probe"
              /\ reqLog[Len(reqLog) - 1].status # None
              /\ FinalProbeReturned
              /\ \A i \in 1..Len(reqLog) : reqLog[i].err = None \/ i = Len(reqLog)
        /\ (SignEnded /\ FinalProbeReturned) => CountHop("home") = 1
        /\ pc = "scrape" <=> (FinalProbeReturned /\ CountHop("home") = 0 /\ exc = None)
        /\ (LoginRun /\ ~LoggedIn) => CountHop("home") = 0

C25_Witness ==
    /\ ScrapingSign /\ pc = "finish"
    /\ CountHop("home") = 1
    /\ Len(Probes) = 2
    /\ Probes[2].status = Some(2)
    /\ LoggedIn

\* The cookies of the cookie file as load_cookies reads them: one per line.
CookiesOfFile == {ParseLine(l) : l \in cookieFile[1].lines}

\* C26: in the CLI main the cookies are loaded before the first status probe
\* and saved only after sign() has returned a SignResult; when sign() ends in
\* BindingRequired or in any failure save_cookies is not run and the cookie
\* file stays as it was; with persistence disabled neither load_cookies nor
\* save_cookies reads or writes a file.
C26_LoadBeforeProbeSaveAfterSign ==
    /\ []((driver = "cli" /\ pc = "probe1" /\ reqLog = <<>>) =>
            session.cookies = IF cookieArg = None \/ cookieFile = None THEN {}
                              ELSE CookiesOfFile)
    /\ [][cookieFile' # cookieFile =>
            /\ driver = "cli" /\ pc = "finish" /\ pc' = "done"
            /\ exc = None /\ FinalProbeReturned /\ result # None
            /\ cookieArg # None
            /\ cookieFile' = Some([valid |-> TRUE,
                                   lines |-> {MozillaLine(c) : c \in session.cookies}])]_vars
    /\ [][(driver = "cli" /\ (exc # None \/ cookieArg = None)) => cookieFile' = cookieFile]_vars
    /\ []((driver = "cli" /\ cookieArg = None) => exc # Some(LoadError))

C26_Witness ==
    /\ driver = "cli" /\ pc = "done"
    /\ cookieArg # None
    /\ cookieFile = None
    /\ exc # None /\ exc # Some(OSError)
    /\ LoggedIn
    /\ SessionCookie \in session.cookies

\* r is the answer to the status probe just made, a JSON object without a
\* status field.
ProbeAnswerLacksStatus ==
    /\ Arrived("probe")
    /\ r[1].json # None
    /\ r[1].json[1].isDict
    /\ r[1].json[1].status = None

\* run_signin is back from a sign() that returned (it did not raise).
SignReturnedToRunSignin == driver = "batch" /\ pc = "returned" /\ exc = None

\* C27: a structured status response with no status field is read as status
\* -1, which is neither ok nor needsLogin; sign() then runs no login flow, and
\* when sign() returns run_signin reports success false with status -1 and no
\* error field; whenever sign() returns, run_signin's success field equals
\* SignResult.ok.
C27_MissingStatusIsMinusOne ==
    /\ ProbeAnswerLacksStatus =>
          /\ Last(reqLog).status = Some(-1)
          /\ result # None /\ result[1].status = -1
          /\ ~ok(result[1]) /\ ~need_login(result[1])
          /\ pc \notin {"s0", "s1", "s2", "s3", "s4", "s5"}
          /\ Len(Probes) = 1 => ~LoginRun
    /\ (Probes # <<>> /\ Probes[1].status = Some(-1)) => (~LoginRun /\ Len(Probes) = 1)
    /\ SignReturnedToRunSignin =>
          /\ ret[1].success = ok(result[1])
          /\ ret[1].status = result[1].status
          /\ "error" \notin DOMAIN ret[1]
          /\ result[1].status = -1 => ret[1].success = FALSE

C27_Witness ==
    /\ SignReturnedToRunSignin
    /\ Len(Probes) = 1
    /\ Probes[1].status = Some(-1)
    /\ ret[1].status = -1
    /\ ret[1].success = FALSE
    /\ ~LoginRun

C28_WitnessReplaced ==
    /\ driver = "batch" /\ pc = "returned" /\ idx = 2
    /\ accounts = <<Account(<<"A", "b">>, <<"pw1">>), Account(<<"A", "b">>, <<"pw1">>)>>
    /\ DOMAIN signin_results = {<<"A", "b">>}
    /\ signin_results[<<"A", "b">>] # ret[1]

C28_WitnessNothingToSend ==
    /\ driver = "batch" /\ pc = "done"
    /\ Len(accounts) = 2
    /\ signin_results = <<>>
    /\ notified = 0

\* No two accounts of a list share a username.
UniqueUsernames(list) ==
    \A i, j \in 1..Len(list) : list[i].username = list[j].username => i = j

StoredUsernames == {accountsFile.list[i].username : i \in 1..Len(accountsFile.list)}

\* Handler h returns from add_account / delete_account in this step.
Returns(h) == handlers[h].result = None /\ handlers'[h].result # None

\* C29: in every reachable state of the account store no two stored accounts
\* share a username, also when add_account and delete_account requests are
\* handled concurrently and interleave between load_accounts and
\* save_accounts; add_account with a username that load_accounts found and
\* delete_account with one it did not find return failure and leave the
\* stored list unchanged.
C29_StoredUsernamesUnique ==
    /\ [](driver = "app" =>
            /\ UniqueUsernames(accountsFile.list)
            /\ \A h \in DOMAIN handlers : UniqueUsernames(handlers[h].accounts))
    /\ [][\A h \in DOMAIN handlers :
            (handlers[h].pc = "load" /\ handlers'[h] # handlers[h]
                /\ accountsFile.state = "list"
                /\ (handlers[h].req.username \in StoredUsernames
                        <=> handlers[h].req.kind = "add")) =>
                /\ Returns(h)
                /\ handlers'[h].result[1] =
                      [success |-> FALSE,
                       message |-> IF handlers[h].req.kind = "add"
                                   THEN MsgAccountExists ELSE MsgAccountMissing]
                /\ handlers'[h].pc = "done"
                /\ accountsFile' = accountsFile]_vars
    /\ [][\A h \in DOMAIN handlers :
            (Returns(h) /\ ~handlers'[h].result[1].success) =>
                /\ handlers[h].pc = "load"
                /\ handlers[h].accounts = <<>>
                /\ accountsFile' = accountsFile
                /\ (handlers[h].req.username \in StoredUsernames
                        <=> handlers[h].req.kind = "add")]_vars
    /\ [](\A h \in DOMAIN handlers :
            (handlers[h].result # None /\ ~handlers[h].result[1].success) =>
                (handlers[h].pc = "done" /\ handlers[h].accounts = <<>>))

\* Two requests adding the same username interleaved between load and save:
\* both were told the account was added, the store holds it once.
C29_Witness ==
    /\ driver = "app"
    /\ \A h \in DOMAIN handlers :
          /\ handlers[h].req.kind = "add"
          /\ handlers[h].req.username = <<"u1", "@", "ti">>
          /\ handlers[h].pc = "done"
          /\ handlers[h].result = Some([success |-> TRUE, message |-> MsgAccountAdded])
    /\ accountsFile.state = "list"
    /\ Len(accountsFile.list) = 1
    /\ accountsFile.list[1] = StoredAccount(<<"u1", "@", "ti">>, <<"p">>, <<>>)
    /\ accountsFile.list[1].nickname = <<"u1">>

====
